---- MODULE Spec2Model ----
(***************************************************************************)
(* Model of the admin edge functions (admin-users, admin-redemptions) and  *)
(* of the referral statistics of ReferralProgramPage.                      *)
(*                                                                         *)
(* The store (profiles, transactions, auth ban state, redemption_requests, *)
(* referrals, referral_earnings) is the managed database; each handler is  *)
(* one action that takes a request, runs the code of the handler on the    *)
(* store and leaves the request and its response in req / resp.            *)
(***************************************************************************)
EXTENDS Integers, Sequences, FiniteSets, TLC

VARIABLES
    redemption_requests,  \* table redemption_requests: id -> row
    profiles,             \* table profiles: id -> [points, total_earned]
    transactions,         \* table transactions: sequence of inserted rows
    banned,               \* auth.users ban_duration: id -> duration
    clock,                \* the wall clock Date.now() reads
    req,                  \* the last HTTP request served
    body,                 \* the JSON body of that request as far as it was read
    resp,                 \* the response to it and what the handler touched
    served,               \* the number of requests served so far
    sessionUser,          \* user of useAuth: the signed-in user of the page, if any
    store_referrals,      \* table referrals, rows of the signed-in referrer
    store_earnings,       \* table referral_earnings, rows of that referrer
    stats,                \* React state stats of ReferralProgramPage
    referrals,            \* React state referrals
    earnings,             \* React state earnings
    loading,              \* React state loading
    refreshing,           \* React state refreshing
    refreshes,            \* the number of times refreshData has run
    pcReferrals,          \* position of each caller's fetchReferrals call
    pcEarnings,           \* position of each caller's fetchEarnings call
    registered,           \* the users who have registered
    referred_by,          \* user -> the owner of the referral code they registered with
    referrals_table,      \* table referrals, the edges of all referrers
    referral_earnings_table,  \* table referral_earnings, the rows of all referrers
    point_transactions,   \* the point-earning transactions of referred users
    bonus_points,         \* user -> the signup bonus points awarded to them
    triggers,             \* the number of times a completion has been triggered
    dashUser,             \* Dashboard: user of useAuth
    userProfile,          \* Dashboard: userProfile of useAuth is loaded
    user_transactions,    \* table transactions, rows of the dashboard's user
    user_tasks,           \* table tasks, the number of that user's completed tasks
    dashStats,            \* Dashboard: React state stats
    recentTransactions,   \* Dashboard: React state recentTransactions
    dashLoading,          \* Dashboard: React state loading
    activityLoading,      \* Dashboard: React state activityLoading
    databaseConnected,    \* Dashboard: React state databaseConnected
    connectionError,      \* Dashboard: React state connectionError
    toasts,               \* Dashboard: the error toasts shown so far
    runs,                 \* Dashboard: the runs of checkDatabaseConnection, each
                          \* with its position and the state its closure captured
    effects,              \* Dashboard: the number of runs of the effect on [user]
    settled,              \* Dashboard: the race that settled last, and to what
    permissions,          \* SubscriptionManagement: the permissions useAdmin grants
    subscriptions,        \* SubscriptionManagement: React state subscriptions
    processingId,         \* SubscriptionManagement: React state processingId
    subsLoading,          \* SubscriptionManagement: React state loading
    subsRefreshing,       \* SubscriptionManagement: React state refreshing
    showAddModal,         \* SubscriptionManagement: React state showAddModal
    formData,             \* SubscriptionManagement: React state formData
    ops,                  \* SubscriptionManagement: the handler calls in progress
    sent,                 \* the requests sent to the admin-subscriptions endpoint
    subToast,             \* SubscriptionManagement: the toast shown last
    calls,                \* SubscriptionManagement: the number of handler calls
    authEmail,            \* the e-mail address of the auth.users row of a caller
    decisions,            \* what each admin check has decided about that caller
    workers               \* the update-points requests being served side by side

vars == <<redemption_requests, profiles, transactions, banned, clock, req, body,
          resp, served, sessionUser, store_referrals, store_earnings, stats, referrals,
          earnings, loading, refreshing, refreshes, pcReferrals, pcEarnings,
          registered, referred_by, referrals_table, referral_earnings_table,
          point_transactions, bonus_points, triggers,
          dashUser, userProfile, user_transactions, user_tasks, dashStats,
          recentTransactions, dashLoading, activityLoading, databaseConnected,
          connectionError, toasts, runs, effects, settled,
          permissions, subscriptions, processingId, subsLoading, subsRefreshing,
          showAddModal, formData, ops, sent, subToast, calls,
          authEmail, decisions, workers>>

adminVars == <<redemption_requests, profiles, transactions, banned, clock, req,
               body, resp, served>>
userStoreVars == <<profiles, transactions, banned>>
pageVars == <<sessionUser, store_referrals, store_earnings, stats, referrals, earnings,
              loading, refreshing, refreshes, pcReferrals, pcEarnings>>
ledgerVars == <<registered, referred_by, referrals_table, referral_earnings_table,
                point_transactions, bonus_points, triggers>>

dashboardVars == <<dashUser, userProfile, user_transactions, user_tasks, dashStats,
                   recentTransactions, dashLoading, activityLoading,
                   databaseConnected, connectionError, toasts, runs, effects,
                   settled>>

subscriptionVars == <<permissions, subscriptions, processingId, subsLoading,
                      subsRefreshing, showAddModal, formData, ops, sent, subToast,
                      calls>>

authVars == <<authEmail, decisions>>
workerVars == <<workers>>

\* What the actions of one part of the system leave alone
outsideAdmin == <<pageVars, ledgerVars, dashboardVars, subscriptionVars, authVars,
                  workerVars>>
outsidePage == <<adminVars, ledgerVars, dashboardVars, subscriptionVars, authVars,
                 workerVars>>
outsideLedger == <<adminVars, pageVars, dashboardVars, subscriptionVars, authVars,
                   workerVars>>
outsideDashboard == <<adminVars, pageVars, ledgerVars, subscriptionVars, authVars,
                      workerVars>>
outsideSubscriptions == <<adminVars, pageVars, ledgerVars, dashboardVars, authVars,
                          workerVars>>
outsideAuth == <<adminVars, pageVars, ledgerVars, dashboardVars, subscriptionVars,
                 workerVars>>

----------------------------------------------------------------------------
(* Bounds of the model *)

MaxClock == 2          \* the clock advances at most this many milliseconds
MaxRequests == 2       \* the functions serve at most this many requests
MaxRows == 2           \* a table holds at most this many rows of the referrer
MaxRefreshes == 1      \* refreshData runs at most this many times
MaxTransactions == 1   \* referred users make at most this many transactions
MaxTriggers == 2       \* completion of a referral is triggered at most this many times
MaxEffects == 3        \* the Dashboard's effect on [user] runs at most this many times
MaxUserRows == 1       \* a table holds at most this many rows of the Dashboard's user
MaxCalls == 3          \* SubscriptionManagement's handlers are called at most this often

----------------------------------------------------------------------------
(* JavaScript values *)

Null == "<null>"       \* null / undefined / an absent JSON field
Empty == ""            \* the empty string

\* !v of JavaScript for a string-valued field
Falsy(v) == v = Null \/ v = Empty

\* a || d
OrElse(v, d) == IF Falsy(v) THEN d ELSE v

----------------------------------------------------------------------------
(* Time: a timestamp is a day and the millisecond of that day *)

MsPerDay == 24 * 60 * 60 * 1000
ExpiryDays == 30

NoTime == [day |-> -1, ms |-> 0]             \* a null timestamp column
Time(n) == [day |-> n \div MsPerDay, ms |-> n % MsPerDay]

\* t + days * 24 * 60 * 60 * 1000 milliseconds
AddDays(t, days) == [day |-> t.day + days, ms |-> t.ms]

----------------------------------------------------------------------------
(* HTTP requests *)

Methods == {"OPTIONS", "GET", "POST", "PUT"}

\* req.json() was not reached
Unread == [kind |-> "unread"]
\* req.json() throws: the request has no body or the body is not JSON
NoJson == [kind |-> "none"]

\* Only POST and PUT requests carry a body
Bodies(method, jsonBodies) ==
    IF method \in {"POST", "PUT"} THEN jsonBodies \cup {NoJson} ELSE {NoJson}

\* A response with what the request made the function do
Response(status, handler, read, wrote) ==
    [status |-> status, handler |-> handler, read |-> read, wrote |-> wrote]

NoRequest == [endpoint |-> "none", method |-> Null, authHeader |-> Null,
              action |-> Null]
NoResponse == Response(0, "none", FALSE, FALSE)

----------------------------------------------------------------------------
(* Authentication and authorization, the same code in both functions *)

\* SUPABASE_URL and SUPABASE_SERVICE_ROLE_KEY are secrets the platform
\* provides to every deployed function
EnvConfigured == TRUE

ADMIN_EMAILS == <<"suzainkhan8360@gmail.com", "Suzainkhan8360@gmail.com",
                  "admin@premiumaccesszone.com",
                  "support@premiumaccesszone.com",
                  "moderator@premiumaccesszone.com">>

\* String.prototype.toLowerCase on the e-mail addresses of the model
toLowerCase(s) ==
    CASE s = "Suzainkhan8360@gmail.com" -> "suzainkhan8360@gmail.com"
      [] s = "SUZAINKHAN8360@GMAIL.COM" -> "suzainkhan8360@gmail.com"
      [] s = "Admin@PremiumAccessZone.com" -> "admin@premiumaccesszone.com"
      [] s = "SUPPORT@premiumaccesszone.com" -> "support@premiumaccesszone.com"
      [] s = "Moderator@PremiumAccessZone.COM" -> "moderator@premiumaccesszone.com"
      [] s = "Admin@PremiumAccessZone.co" -> "admin@premiumaccesszone.co"
      [] s = " Admin@premiumaccesszone.com" -> " admin@premiumaccesszone.com"
      [] s = "User@Example.com" -> "user@example.com"
      [] OTHER -> s

\* The Authorization headers of the model: absent, empty, or a bearer token
AuthHeaders == {Null, Empty, "Bearer expired", "Bearer user",
                "Bearer noemail", "Bearer Admin"}

\* authHeader.replace('Bearer ', '')
Token(authHeader) ==
    CASE authHeader = "Bearer expired" -> "expired"
      [] authHeader = "Bearer user" -> "user"
      [] authHeader = "Bearer noemail" -> "noemail"
      [] authHeader = "Bearer Admin" -> "Admin"
      [] OTHER -> authHeader

\* supabaseAdmin.auth.getUser(token): the user of the token, or an error
getUser(token) ==
    CASE token = "user" -> [error |-> FALSE, found |-> TRUE, email |-> "User@Example.com"]
      [] token = "noemail" -> [error |-> FALSE, found |-> TRUE, email |-> Null]
      [] token = "Admin" -> [error |-> FALSE, found |-> TRUE, email |-> "Admin@PremiumAccessZone.com"]
      [] OTHER -> [error |-> TRUE, found |-> FALSE, email |-> Null]

\* ADMIN_EMAILS.some(email => email.toLowerCase() === (user.email || '').toLowerCase())
isAdminEmail(email) ==
    \E i \in 1..Len(ADMIN_EMAILS) :
        toLowerCase(ADMIN_EMAILS[i]) = toLowerCase(OrElse(email, Empty))

\* Gate without the check of the allow-list
Gate_NoAdminCheck(method, authHeader) ==
    IF method = "OPTIONS" THEN 200
    ELSE IF ~EnvConfigured THEN 500
    ELSE IF Falsy(authHeader) THEN 401
    ELSE LET u == getUser(Token(authHeader)) IN
         IF u.error \/ ~u.found THEN 401 ELSE 0

\* The status the function answers before it looks at the action:
\* 200 to a preflight, 500 without configuration, 401, 403; 0 lets the request through
Gate(method, authHeader) ==
    IF method = "OPTIONS" THEN 200
    ELSE IF ~EnvConfigured THEN 500
    ELSE IF Falsy(authHeader) THEN 401
    ELSE LET u == getUser(Token(authHeader)) IN
         IF u.error \/ ~u.found THEN 401
         ELSE IF ~isAdminEmail(u.email) THEN 403
         ELSE 0

----------------------------------------------------------------------------
(* The three places that decide whether a user is an admin *)

\* The e-mail addresses of auth.users rows in the model; Null is a row
\* without an address
Emails == {Null, Empty,
           "suzainkhan8360@gmail.com", "Suzainkhan8360@gmail.com",
           "SUZAINKHAN8360@GMAIL.COM",
           "admin@premiumaccesszone.com", "Admin@PremiumAccessZone.com",
           "support@premiumaccesszone.com", "SUPPORT@premiumaccesszone.com",
           "moderator@premiumaccesszone.com", "Moderator@PremiumAccessZone.COM",
           "Admin@PremiumAccessZone.co", " Admin@premiumaccesszone.com",
           "user@example.com", "User@Example.com", "gmail.com"}

\* ADMIN_EMAILS of admin-users, a constant of its handler
UsersAdminEmails == <<"suzainkhan8360@gmail.com", "Suzainkhan8360@gmail.com",
                      "admin@premiumaccesszone.com",
                      "support@premiumaccesszone.com",
                      "moderator@premiumaccesszone.com">>

\* isAdminEmail of admin-users
UsersIsAdminEmail(email) ==
    \E i \in 1..Len(UsersAdminEmails) :
        toLowerCase(UsersAdminEmails[i]) = toLowerCase(OrElse(email, Empty))

\* admin_emails of the SQL function is_admin
admin_emails == <<"suzainkhan8360@gmail.com", "Suzainkhan8360@gmail.com",
                  "admin@premiumaccesszone.com", "support@premiumaccesszone.com",
                  "moderator@premiumaccesszone.com">>

\* lower() of SQL on the e-mail addresses of the model
lower(s) ==
    CASE s = "Suzainkhan8360@gmail.com" -> "suzainkhan8360@gmail.com"
      [] s = "SUZAINKHAN8360@GMAIL.COM" -> "suzainkhan8360@gmail.com"
      [] s = "Admin@PremiumAccessZone.com" -> "admin@premiumaccesszone.com"
      [] s = "SUPPORT@premiumaccesszone.com" -> "support@premiumaccesszone.com"
      [] s = "Moderator@PremiumAccessZone.COM" -> "moderator@premiumaccesszone.com"
      [] s = "Admin@PremiumAccessZone.co" -> "admin@premiumaccesszone.co"
      [] s = " Admin@premiumaccesszone.com" -> " admin@premiumaccesszone.com"
      [] s = "User@Example.com" -> "user@example.com"
      [] OTHER -> s

\* is_admin comparing the addresses as they are written
is_admin_CaseSensitive(user_email) ==
    /\ user_email # Null
    /\ \E i \in 1..Len(admin_emails) : admin_emails[i] = user_email

\* is_admin: user_email is the address SELECT email INTO user_email finds
\* for the user id, Null (SQL NULL) when there is none
is_admin(user_email) ==
    /\ user_email # Null
    /\ \E i \in 1..Len(admin_emails) : lower(admin_emails[i]) = lower(user_email)

Decision(isAdmin) == IF isAdmin THEN "admin" ELSE "denied"

Undecided == [users |-> "none", redemptions |-> "none", is_admin |-> "none"]

\* admin-users checks the user of the token
UsersCheck ==
    /\ decisions.users = "none"
    /\ decisions' = [decisions EXCEPT !.users = Decision(UsersIsAdminEmail(authEmail))]
    /\ UNCHANGED authEmail
    /\ UNCHANGED outsideAuth

\* admin-redemptions checks the user of the token
RedemptionsCheck ==
    /\ decisions.redemptions = "none"
    /\ decisions' = [decisions EXCEPT
                        !.redemptions = Decision(isAdminEmail(authEmail))]
    /\ UNCHANGED authEmail
    /\ UNCHANGED outsideAuth

\* A row-level policy calls is_admin(auth.uid())
PolicyCheck ==
    /\ decisions.is_admin = "none"
    /\ decisions' = [decisions EXCEPT !.is_admin = Decision(is_admin(authEmail))]
    /\ UNCHANGED authEmail
    /\ UNCHANGED outsideAuth

----------------------------------------------------------------------------
(* The admin-redemptions function *)

RequestIds == {"r1", "r2"}

PendingRow == [status |-> "pending", activation_code |-> Null,
               instructions |-> Null, completed_at |-> NoTime,
               expires_at |-> NoTime]

\* The JSON bodies of update requests in the model
RedemptionBodies ==
    [kind : {"json"},
     requestId : {Null, "r1", "r9"},
     newStatus : {Null, "pending", "completed", "failed", "cancelled", "processing"},
     activationCode : {Null, Empty, "CODE-A"},
     instructions : {Null, Empty, "INSTR"}]

RedemptionActions == {Null, "list", "update", "delete"}

\* url.searchParams.get('action') || (req.method === 'GET' ? 'list' : 'update')
RedemptionAction(method, action) ==
    OrElse(action, IF method = "GET" THEN "list" ELSE "update")

\* RouteRedemptions looking at the action only, as the switch of admin-users does
RouteRedemptions_AnyMethod(method, action) ==
    IF RedemptionAction(method, action) = "list"
    THEN "handleListRedemptions"
    ELSE IF RedemptionAction(method, action) = "update"
    THEN "handleUpdateRedemption"
    ELSE "none"

\* The handler the function runs for a request that passed the gate
RouteRedemptions(method, action) ==
    IF method = "GET" /\ RedemptionAction(method, action) = "list"
    THEN "handleListRedemptions"
    ELSE IF method = "POST" /\ RedemptionAction(method, action) = "update"
    THEN "handleUpdateRedemption"
    ELSE "none"

\* UpdateData with the expiry period counted without the factor 1000
UpdateData_SecondsExpiry(b, now1, now2) ==
    (IF b.newStatus = "completed" /\ ~Falsy(b.activationCode)
     THEN [expires_at |-> [day |-> now2.day, ms |-> now2.ms + 30 * 24 * 60 * 60]]
     ELSE <<>>)
    @@
    (IF b.newStatus = "completed"
     THEN [activation_code |-> b.activationCode,
           instructions |-> OrElse(b.instructions, Null)]
     ELSE <<>>)
    @@
    [status |-> b.newStatus,
     completed_at |-> IF b.newStatus \in {"completed", "failed", "cancelled"}
                      THEN now1 ELSE NoTime]

\* UpdateData writing the activation code and the instructions whenever the
\* payload carries them
UpdateData_CodeWhenProvided(b, now1, now2) ==
    (IF b.newStatus = "completed" /\ ~Falsy(b.activationCode)
     THEN [expires_at |-> AddDays(now2, ExpiryDays)]
     ELSE <<>>)
    @@
    (IF b.newStatus = "completed" \/ ~Falsy(b.activationCode)
     THEN [activation_code |-> b.activationCode,
           instructions |-> OrElse(b.instructions, Null)]
     ELSE <<>>)
    @@
    [status |-> b.newStatus,
     completed_at |-> IF b.newStatus \in {"completed", "failed", "cancelled"}
                      THEN now1 ELSE NoTime]

\* updateData of handleUpdateRedemption: the columns the update writes.
\* now1 and now2 are the two readings of the clock.
UpdateData(b, now1, now2) ==
    (IF b.newStatus = "completed" /\ ~Falsy(b.activationCode)
     THEN [expires_at |-> AddDays(now2, ExpiryDays)]
     ELSE <<>>)
    @@
    (IF b.newStatus = "completed"
     THEN [activation_code |-> b.activationCode,
           instructions |-> OrElse(b.instructions, Null)]
     ELSE <<>>)
    @@
    [status |-> b.newStatus,
     completed_at |-> IF b.newStatus \in {"completed", "failed", "cancelled"}
                      THEN now1 ELSE NoTime]

\* ValidateRedemption without the check of the activation code
ValidateRedemption_NoCodeCheck(b) ==
    IF b.kind # "json" THEN 500
    ELSE IF Falsy(b.requestId) \/ Falsy(b.newStatus) THEN 400
    ELSE 0

\* The status handleUpdateRedemption answers before it updates the table;
\* 0 when it goes on to the update
ValidateRedemption(b) ==
    IF b.kind # "json" THEN 500
    ELSE IF Falsy(b.requestId) \/ Falsy(b.newStatus) THEN 400
    ELSE IF b.newStatus = "completed" /\ Falsy(b.activationCode) THEN 400
    ELSE 0

\* .update(updateData).eq('id', requestId) on a table
UpdateRow(table, id, data) ==
    [r \in DOMAIN table |->
        IF r = id
        THEN [c \in DOMAIN table[r] |->
                 IF c \in DOMAIN data THEN data[c] ELSE table[r][c]]
        ELSE table[r]]

\* handleUpdateRedemption: the response and the table after it. dbOk is
\* whether the database carries out the statement; .single() fails when no
\* row has the id.
handleUpdateRedemption(table, b, now1, now2, dbOk) ==
    IF ValidateRedemption(b) # 0
    THEN [resp |-> Response(ValidateRedemption(b), "handleUpdateRedemption", FALSE, FALSE),
          table |-> table]
    ELSE IF ~dbOk \/ b.requestId \notin DOMAIN table
    THEN [resp |-> Response(500, "handleUpdateRedemption", FALSE, FALSE),
          table |-> table]
    ELSE [resp |-> Response(200, "handleUpdateRedemption", TRUE, TRUE),
          table |-> UpdateRow(table, b.requestId, UpdateData(b, now1, now2))]

\* handleListRedemptions: reads the table
handleListRedemptions(dbOk) ==
    Response(IF dbOk THEN 200 ELSE 500, "handleListRedemptions", TRUE, FALSE)

\* The outcomes of a database statement: carried out, or failed
DbOutcomes(reached) == IF reached THEN BOOLEAN ELSE {TRUE}

\* The readings Date.now() can give after the clock read c
LaterReadings(c, reached) ==
    IF reached /\ c < MaxClock THEN {c, c + 1} ELSE {c}

\* Deno.serve of admin-redemptions
ServeRedemptions ==
    \E method \in Methods, authHeader \in AuthHeaders, action \in RedemptionActions :
        /\ req = NoRequest
        /\ served < MaxRequests
        /\ served' = served + 1
        /\ req' = [endpoint |-> "admin-redemptions", method |-> method,
                   authHeader |-> authHeader, action |-> action]
        /\ UNCHANGED userStoreVars
        /\ UNCHANGED outsideAdmin
        /\ IF Gate(method, authHeader) # 0
           THEN /\ resp' = Response(Gate(method, authHeader), "none", FALSE, FALSE)
                /\ body' = Unread
                /\ UNCHANGED <<redemption_requests, clock>>
           ELSE IF RouteRedemptions(method, action) = "handleListRedemptions"
           THEN /\ \E dbOk \in BOOLEAN : resp' = handleListRedemptions(dbOk)
                /\ body' = Unread
                /\ UNCHANGED <<redemption_requests, clock>>
           ELSE IF RouteRedemptions(method, action) = "handleUpdateRedemption"
           THEN \E b \in Bodies(method, RedemptionBodies) :
                \E now2 \in LaterReadings(clock, ValidateRedemption(b) = 0),
                   dbOk \in DbOutcomes(ValidateRedemption(b) = 0) :
                    LET out == handleUpdateRedemption(redemption_requests, b,
                                                      Time(clock), Time(now2), dbOk)
                    IN /\ body' = b
                       /\ resp' = out.resp
                       /\ redemption_requests' = out.table
                       /\ clock' = now2
           ELSE /\ resp' = Response(400, "none", FALSE, FALSE)
                /\ body' = Unread
                /\ UNCHANGED <<redemption_requests, clock>>

----------------------------------------------------------------------------
(* The admin-users function *)

UserIds == {"u1"}

UserActions == {Null, "list", "recent-activity", "update-points",
                "update-status", "delete"}

\* A JSON number n, and JSON values that are no number
Number(n) == [type |-> "number", value |-> n]
NotANumber == {[type |-> "undefined", value |-> 0], [type |-> "string", value |-> 5]}

\* The JSON bodies of update-points requests in the model
PointsBodies ==
    [kind : {"json"},
     userId : {Null, "u1", "u9"},
     pointsToAdd : {Number(n) : n \in {-2, 0, 1}} \cup NotANumber,
     description : {Null, Empty, "bonus"}]

\* The JSON bodies of update-status requests in the model
StatusBodies ==
    [kind : {"json"},
     userId : {Null, "u1", "u9"},
     action : {Null, "ban", "unban", "suspend", "activate", "delete"}]

\* Math.max(0, n) left out
Max0_NoClamp(n) == n

\* Math.max(0, n) and Math.abs(n)
Max0(n) == IF n < 0 THEN 0 ELSE n
Abs(n) == IF n < 0 THEN -n ELSE n

\* url.searchParams.get('action') || 'list'
UserAction(action) == OrElse(action, "list")

\* The handler the switch of admin-users runs for a request that passed the gate
RouteUsers(method, action) ==
    CASE UserAction(action) = "list" -> "handleListUsers"
      [] UserAction(action) = "recent-activity" -> "handleRecentActivity"
      [] UserAction(action) = "update-points" -> "handleUpdatePoints"
      [] UserAction(action) = "update-status" -> "handleUpdateStatus"
      [] OTHER -> "none"

\* ValidatePoints without the check that pointsToAdd is a number
ValidatePoints_NoTypeCheck(b) ==
    IF b.kind # "json" THEN 500
    ELSE IF Falsy(b.userId) \/ Falsy(b.description) THEN 400
    ELSE 0

\* The status handleUpdatePoints answers before it reads the profile; 0 when it goes on
ValidatePoints(b) ==
    IF b.kind # "json" THEN 500
    ELSE IF Falsy(b.userId) \/ b.pointsToAdd.type # "number" \/ Falsy(b.description)
    THEN 400
    ELSE 0

\* handleUpdatePoints: the response and the tables after it. dbSelect,
\* dbUpdate and dbInsert are whether the database carries out the three
\* statements.
handleUpdatePoints(profs, txs, b, dbSelect, dbUpdate, dbInsert) ==
    IF ValidatePoints(b) # 0
    THEN [resp |-> Response(ValidatePoints(b), "handleUpdatePoints", FALSE, FALSE),
          profiles |-> profs, transactions |-> txs]
    ELSE IF ~dbSelect
    THEN [resp |-> Response(500, "handleUpdatePoints", TRUE, FALSE),
          profiles |-> profs, transactions |-> txs]
    ELSE IF b.userId \notin DOMAIN profs
    THEN [resp |-> Response(404, "handleUpdatePoints", TRUE, FALSE),
          profiles |-> profs, transactions |-> txs]
    ELSE IF ~dbUpdate
    THEN [resp |-> Response(500, "handleUpdatePoints", TRUE, FALSE),
          profiles |-> profs, transactions |-> txs]
    ELSE
      LET user == profs[b.userId]
          pointsToAdd == b.pointsToAdd.value
          newPoints == user.points + pointsToAdd
          newTotalEarned == IF pointsToAdd > 0
                            THEN user.total_earned + pointsToAdd
                            ELSE user.total_earned
          updated == [profs EXCEPT ![b.userId] =
                         [points |-> Max0(newPoints),
                          total_earned |-> newTotalEarned]]
          record == [user_id |-> b.userId,
                     type |-> IF pointsToAdd > 0 THEN "earn" ELSE "redeem",
                     points |-> Abs(pointsToAdd),
                     description |-> b.description,
                     task_type |-> "admin_adjustment"]
      IN IF ~dbInsert
         THEN [resp |-> Response(500, "handleUpdatePoints", TRUE, TRUE),
               profiles |-> updated, transactions |-> txs]
         ELSE [resp |-> Response(200, "handleUpdatePoints", TRUE, TRUE),
               profiles |-> updated, transactions |-> Append(txs, record)]

\* The ban_duration handleUpdateStatus sets for an action; Null for an action it refuses
BanDuration(action) ==
    CASE action = "ban" -> "permanent"
      [] action = "unban" -> "none"
      [] action = "suspend" -> "24h"
      [] action = "activate" -> "none"
      [] OTHER -> Null

\* The status handleUpdateStatus answers before it updates the user; 0 when it goes on
ValidateStatus(b) ==
    IF b.kind # "json" THEN 500
    ELSE IF Falsy(b.userId) \/ Falsy(b.action) THEN 400
    ELSE IF BanDuration(b.action) = Null THEN 400
    ELSE 0

\* handleUpdateStatus: the response and the ban state after it;
\* auth.admin.updateUserById fails for a user that does not exist
handleUpdateStatus(bans, b, dbOk) ==
    IF ValidateStatus(b) # 0
    THEN [resp |-> Response(ValidateStatus(b), "handleUpdateStatus", FALSE, FALSE),
          banned |-> bans]
    ELSE IF ~dbOk \/ b.userId \notin DOMAIN bans
    THEN [resp |-> Response(500, "handleUpdateStatus", FALSE, FALSE),
          banned |-> bans]
    ELSE [resp |-> Response(200, "handleUpdateStatus", FALSE, TRUE),
          banned |-> [bans EXCEPT ![b.userId] = BanDuration(b.action)]]

\* handleListUsers and handleRecentActivity: read the tables
handleListUsers(dbOk) ==
    Response(IF dbOk THEN 200 ELSE 500, "handleListUsers", TRUE, FALSE)

handleRecentActivity(dbOk) ==
    Response(IF dbOk THEN 200 ELSE 500, "handleRecentActivity", TRUE, FALSE)

\* Deno.serve of admin-users
ServeUsers ==
    \E method \in Methods, authHeader \in AuthHeaders, action \in UserActions :
        /\ req = NoRequest
        /\ served < MaxRequests
        /\ served' = served + 1
        /\ req' = [endpoint |-> "admin-users", method |-> method,
                   authHeader |-> authHeader, action |-> action]
        /\ UNCHANGED <<redemption_requests, clock>>
        /\ UNCHANGED outsideAdmin
        /\ IF Gate(method, authHeader) # 0
           THEN /\ resp' = Response(Gate(method, authHeader), "none", FALSE, FALSE)
                /\ body' = Unread
                /\ UNCHANGED userStoreVars
           ELSE IF RouteUsers(method, action) = "handleListUsers"
           THEN /\ \E dbOk \in BOOLEAN : resp' = handleListUsers(dbOk)
                /\ body' = Unread
                /\ UNCHANGED userStoreVars
           ELSE IF RouteUsers(method, action) = "handleRecentActivity"
           THEN /\ \E dbOk \in BOOLEAN : resp' = handleRecentActivity(dbOk)
                /\ body' = Unread
                /\ UNCHANGED userStoreVars
           ELSE IF RouteUsers(method, action) = "handleUpdatePoints"
           THEN \E b \in Bodies(method, PointsBodies) :
                \E dbSelect \in DbOutcomes(ValidatePoints(b) = 0),
                   dbUpdate \in DbOutcomes(ValidatePoints(b) = 0),
                   dbInsert \in DbOutcomes(ValidatePoints(b) = 0) :
                    LET out == handleUpdatePoints(profiles, transactions, b,
                                                  dbSelect, dbUpdate, dbInsert)
                    IN /\ body' = b
                       /\ resp' = out.resp
                       /\ profiles' = out.profiles
                       /\ transactions' = out.transactions
                       /\ UNCHANGED banned
           ELSE IF RouteUsers(method, action) = "handleUpdateStatus"
           THEN \E b \in Bodies(method, StatusBodies) :
                \E dbOk \in DbOutcomes(ValidateStatus(b) = 0) :
                    LET out == handleUpdateStatus(banned, b, dbOk)
                    IN /\ body' = b
                       /\ resp' = out.resp
                       /\ banned' = out.banned
                       /\ UNCHANGED <<profiles, transactions>>
           ELSE /\ resp' = Response(400, "none", FALSE, FALSE)
                /\ body' = Unread
                /\ UNCHANGED userStoreVars

\* Time passes between requests
Tick ==
    /\ req = NoRequest
    /\ clock < MaxClock
    /\ clock' = clock + 1
    /\ UNCHANGED <<redemption_requests, profiles, transactions, banned, req,
                   body, resp, served>>
    /\ UNCHANGED outsideAdmin

\* The response has been sent; the functions wait for the next request
Reply ==
    /\ req # NoRequest
    /\ req' = NoRequest
    /\ body' = Unread
    /\ resp' = NoResponse
    /\ UNCHANGED <<redemption_requests, profiles, transactions, banned, clock,
                   served>>
    /\ UNCHANGED outsideAdmin

----------------------------------------------------------------------------
(* admin-users serving update-points requests side by side: every await of
   handleUpdatePoints is a point where another request can run *)

Workers == {"w1", "w2"}

\* The worker has not read the profile
NotRead == [read |-> FALSE]

Idle == [pc |-> "idle", b |-> Unread, user |-> NotRead, status |-> 0]

\* What the other actions leave alone while requests are served side by side
outsideWorkers == <<redemption_requests, banned, clock, req, body, resp, served,
                    pageVars, ledgerVars, dashboardVars, subscriptionVars,
                    authVars>>

\* handleUpdatePoints up to its first query: a worker takes a request that
\* passed the gate, reads its body and validates it
StartUpdatePoints ==
    \E w \in Workers, b \in PointsBodies \cup {NoJson} :
        /\ workers[w].pc = "idle"
        /\ workers' = [workers EXCEPT ![w] =
               IF ValidatePoints(b) # 0
               THEN [pc |-> "answered", b |-> b, user |-> NotRead,
                     status |-> ValidatePoints(b)]
               ELSE [pc |-> "select", b |-> b, user |-> NotRead, status |-> 0]]
        /\ UNCHANGED <<profiles, transactions>>
        /\ UNCHANGED outsideWorkers

\* .from('profiles').select('points, total_earned').eq('id', userId).maybeSingle()
\* answers: the worker holds the row it read
SelectProfile ==
    \E w \in Workers, dbSelect \in BOOLEAN :
        /\ workers[w].pc = "select"
        /\ workers' = [workers EXCEPT ![w] =
               IF ~dbSelect
               THEN [@ EXCEPT !.pc = "answered", !.status = 500]
               ELSE IF workers[w].b.userId \notin DOMAIN profiles
               THEN [@ EXCEPT !.pc = "answered", !.status = 404]
               ELSE [@ EXCEPT !.pc = "update",
                              !.user = profiles[workers[w].b.userId]]]
        /\ UNCHANGED <<profiles, transactions>>
        /\ UNCHANGED outsideWorkers

\* .from('profiles').update({points, total_earned}).eq('id', userId) answers:
\* the values are computed from the row the worker read
UpdateProfile ==
    \E w \in Workers, dbUpdate \in BOOLEAN :
        /\ workers[w].pc = "update"
        /\ LET user == workers[w].user
               userId == workers[w].b.userId
               pointsToAdd == workers[w].b.pointsToAdd.value
               newPoints == user.points + pointsToAdd
               newTotalEarned == IF pointsToAdd > 0
                                 THEN user.total_earned + pointsToAdd
                                 ELSE user.total_earned
           IN IF ~dbUpdate
              THEN /\ workers' = [workers EXCEPT ![w].pc = "answered",
                                                 ![w].status = 500]
                   /\ UNCHANGED profiles
              ELSE /\ workers' = [workers EXCEPT ![w].pc = "insert"]
                   /\ profiles' = [profiles EXCEPT ![userId] =
                                      [points |-> Max0(newPoints),
                                       total_earned |-> newTotalEarned]]
        /\ UNCHANGED transactions
        /\ UNCHANGED outsideWorkers

\* .from('transactions').insert({...}) answers, and the worker responds
InsertTransaction ==
    \E w \in Workers, dbInsert \in BOOLEAN :
        /\ workers[w].pc = "insert"
        /\ LET userId == workers[w].b.userId
               pointsToAdd == workers[w].b.pointsToAdd.value
               record == [user_id |-> userId,
                          type |-> IF pointsToAdd > 0 THEN "earn" ELSE "redeem",
                          points |-> Abs(pointsToAdd),
                          description |-> workers[w].b.description,
                          task_type |-> "admin_adjustment"]
           IN IF ~dbInsert
              THEN /\ workers' = [workers EXCEPT ![w].pc = "answered",
                                                 ![w].status = 500]
                   /\ UNCHANGED transactions
              ELSE /\ workers' = [workers EXCEPT ![w].pc = "answered",
                                                 ![w].status = 200]
                   /\ transactions' = Append(transactions, record)
        /\ UNCHANGED profiles
        /\ UNCHANGED outsideWorkers

----------------------------------------------------------------------------
(* ReferralProgramPage: the statistics of the signed-in referrer *)

\* JavaScript values of a numeric column: a number, null (the column is
\* NULL), undefined (the record has no such property), and NaN
JsNull == [type |-> "null", value |-> 0]
Undefined == [type |-> "undefined", value |-> 0]
NaN == [type |-> "nan", value |-> 0]

\* ToNumber of the operands of +
ToNumber(v) ==
    CASE v.type = "number" -> v
      [] v.type = "null" -> Number(0)
      [] OTHER -> NaN

\* a + b on such values
Plus(a, b) ==
    LET x == ToNumber(a)
        y == ToNumber(b)
    IN IF x.type = "nan" \/ y.type = "nan" THEN NaN
       ELSE Number(x.value + y.value)

\* v || 0 for the result of a sum: NaN and 0 are falsy
OrZero(v) == IF v.type = "number" THEN v.value ELSE 0

\* Rows of the tables referrals and referral_earnings in the model
ReferralRows ==
    {[level |-> 1, status |-> "completed", points_awarded |-> Number(500)],
     [level |-> 1, status |-> "pending", points_awarded |-> Number(0)],
     [level |-> 2, status |-> "completed", points_awarded |-> Number(200)],
     [level |-> 3, status |-> "pending", points_awarded |-> Number(0)],
     [level |-> 3, status |-> "completed", points_awarded |-> Undefined]}

EarningRows ==
    {[level |-> 1, commission_points |-> Number(100)],
     [level |-> 2, commission_points |-> Number(50)],
     [level |-> 3, commission_points |-> JsNull],
     [level |-> 3, commission_points |-> Undefined]}

\* The sequences of at most n rows
SeqsUpTo(rows, n) == UNION {[1..k -> rows] : k \in 0..n}

\* useState of stats
InitialStats ==
    [totalReferrals |-> 0, pendingReferrals |-> 0, completedReferrals |-> 0,
     totalEarnings |-> 0, level1Referrals |-> 0, level2Referrals |-> 0,
     level3Referrals |-> 0]

\* data.filter(pred).length
RECURSIVE CountRows(_, _, _)
CountRows(data, column, value) ==
    IF data = <<>> THEN 0
    ELSE (IF Head(data)[column] = value THEN 1 ELSE 0)
         + CountRows(Tail(data), column, value)

\* data.reduce((sum, r) => sum + (r.status === 'completed' ? r.points_awarded : 0), 0)
RECURSIVE BonusSum(_)
BonusSum(data) ==
    IF data = <<>> THEN Number(0)
    ELSE Plus(BonusSum(SubSeq(data, 1, Len(data) - 1)),
              IF data[Len(data)].status = "completed"
              THEN data[Len(data)].points_awarded ELSE Number(0))

\* data.reduce((sum, e) => sum + e.commission_points, 0)
RECURSIVE CommissionSum(_)
CommissionSum(data) ==
    IF data = <<>> THEN Number(0)
    ELSE Plus(CommissionSum(SubSeq(data, 1, Len(data) - 1)),
              data[Len(data)].commission_points)

\* fetchReferrals with the level-3 filter copied from the level-2 one
ReferralStats_Level3AsLevel2(prev, data) ==
    [totalReferrals |-> Len(data),
     pendingReferrals |-> CountRows(data, "status", "pending"),
     completedReferrals |-> CountRows(data, "status", "completed"),
     level1Referrals |-> CountRows(data, "level", 1),
     level2Referrals |-> CountRows(data, "level", 2),
     level3Referrals |-> CountRows(data, "level", 2),
     totalEarnings |-> prev.totalEarnings]

\* The setStats updater of fetchReferrals applied to prev
\* (the totalEarnings it computed from data is not what it stores)
ReferralStats(prev, data) ==
    LET totalEarnings == OrZero(BonusSum(data)) IN
    [totalReferrals |-> Len(data),
     pendingReferrals |-> CountRows(data, "status", "pending"),
     completedReferrals |-> CountRows(data, "status", "completed"),
     level1Referrals |-> CountRows(data, "level", 1),
     level2Referrals |-> CountRows(data, "level", 2),
     level3Referrals |-> CountRows(data, "level", 3),
     totalEarnings |-> prev.totalEarnings]

\* The setStats updater of fetchEarnings applied to prev
EarningStats(prev, data) ==
    LET commissionEarnings == OrZero(CommissionSum(data)) IN
    [prev EXCEPT !.totalEarnings = prev.totalEarnings + commissionEarnings]

Callers == {"effect", "refresh"}

\* fetchReferrals up to its query: the caller now awaits the answer
StartReferrals(caller) ==
    /\ loading' = TRUE
    /\ pcReferrals' = [pcReferrals EXCEPT ![caller] = "awaiting"]

\* fetchEarnings up to its query
StartEarnings(caller) ==
    pcEarnings' = [pcEarnings EXCEPT ![caller] = "awaiting"]

\* useEffect([user]): the page starts the two fetches when a user is signed in
Mount ==
    /\ sessionUser # Null
    /\ pcReferrals["effect"] = "idle" /\ pcEarnings["effect"] = "idle"
    /\ StartReferrals("effect")
    /\ StartEarnings("effect")
    /\ UNCHANGED <<sessionUser, store_referrals, store_earnings, stats, referrals,
                   earnings, refreshing, refreshes>>
    /\ UNCHANGED outsidePage

\* refreshData up to Promise.all; the button is disabled while refreshing
RefreshData ==
    /\ ~refreshing
    /\ refreshes < MaxRefreshes
    /\ refreshes' = refreshes + 1
    /\ pcReferrals["refresh"] # "awaiting" /\ pcEarnings["refresh"] # "awaiting"
    /\ IF sessionUser # Null
       THEN /\ refreshing' = TRUE
            /\ StartReferrals("refresh")
            /\ StartEarnings("refresh")
       ELSE /\ refreshing' = FALSE
            /\ UNCHANGED <<loading, pcReferrals, pcEarnings>>
    /\ UNCHANGED <<sessionUser, store_referrals, store_earnings, stats, referrals, earnings>>
    /\ UNCHANGED outsidePage

\* refreshData after Promise.all: both fetches of the refresh have returned
RefreshDone(pcR, pcE) ==
    IF refreshing /\ pcR["refresh"] # "awaiting" /\ pcE["refresh"] # "awaiting"
    THEN FALSE ELSE refreshing

\* fetchReferrals from the answer of its query to its end
ReferralsAnswer ==
    \E caller \in Callers, ok \in BOOLEAN :
        /\ pcReferrals[caller] = "awaiting"
        /\ pcReferrals' = [pcReferrals EXCEPT ![caller] = IF ok THEN "done" ELSE "failed"]
        /\ IF ok
           THEN /\ referrals' = store_referrals
                /\ stats' = ReferralStats(stats, store_referrals)
           ELSE UNCHANGED <<referrals, stats>>
        /\ loading' = FALSE
        /\ refreshing' = RefreshDone(pcReferrals', pcEarnings)
        /\ UNCHANGED <<sessionUser, store_referrals, store_earnings, earnings, pcEarnings,
                       refreshes>>
        /\ UNCHANGED outsidePage

\* fetchEarnings from the answer of its query to its end
EarningsAnswer ==
    \E caller \in Callers, ok \in BOOLEAN :
        /\ pcEarnings[caller] = "awaiting"
        /\ pcEarnings' = [pcEarnings EXCEPT ![caller] = IF ok THEN "done" ELSE "failed"]
        /\ IF ok
           THEN /\ earnings' = store_earnings
                /\ stats' = EarningStats(stats, store_earnings)
           ELSE UNCHANGED <<earnings, stats>>
        /\ refreshing' = RefreshDone(pcReferrals, pcEarnings')
        /\ UNCHANGED <<sessionUser, store_referrals, store_earnings, referrals, loading,
                       pcReferrals, refreshes>>
        /\ UNCHANGED outsidePage

\* Another session deletes the referrer's rows of one of the two tables the
\* page reads; the page learns of it only through its next query
DeleteRows ==
    \E table \in {"referrals", "referral_earnings"} :
        /\ IF table = "referrals"
           THEN /\ store_referrals # <<>>
                /\ store_referrals' = <<>>
                /\ UNCHANGED store_earnings
           ELSE /\ store_earnings # <<>>
                /\ store_earnings' = <<>>
                /\ UNCHANGED store_referrals
        /\ UNCHANGED <<sessionUser, stats, referrals, earnings, loading, refreshing,
                       refreshes, pcReferrals, pcEarnings>>
        /\ UNCHANGED outsidePage

----------------------------------------------------------------------------
(* Referral policy: attribution, signup bonus and commission, as the       *)
(* database applies them to the tables the page reads                      *)

\* The users who may register, in the order in which they do
Members == <<"m1", "m2", "m3", "m4", "m5">>
MemberIds == {Members[i] : i \in 1..Len(Members)}

\* An attribution chain pays its first three ancestors
MaxLevel == 3

\* Commission schedule: bonus points and commission percentage of a level
Bonus(level) == CASE level = 1 -> 500 [] level = 2 -> 200 [] OTHER -> 100
CommissionPercentage(level) == CASE level = 1 -> 10 [] level = 2 -> 5 [] OTHER -> 2

\* round(n / d) for n >= 0, halves rounded up
Round(n, d) == (2 * n + d) \div (2 * d)

\* The points of the transactions in the model
TransactionPoints == {1000, 25}

\* The edges of the attribution store that lead to a referred user
EdgesTo(table, u) == {e \in table : e.referred_id = u}

\* A new user registers with the referral code of r (Null: with none): an
\* edge of level 1 to r and edges of level 2 and 3 to r's own referrers
Register ==
    \E r \in registered \cup {Null} :
        /\ Cardinality(registered) < Len(Members)
        /\ LET u == Members[Cardinality(registered) + 1]
               edge(referrer, level) ==
                   [referrer_id |-> referrer, referred_id |-> u, level |-> level,
                    status |-> "pending", points_awarded |-> 0,
                    completed_at |-> NoTime]
           IN /\ registered' = registered \cup {u}
              /\ referred_by' = [referred_by EXCEPT ![u] = r]
              /\ referrals_table' =
                    IF r = Null THEN referrals_table
                    ELSE referrals_table
                         \cup {edge(r, 1)}
                         \cup {edge(e.referrer_id, e.level + 1) :
                                 e \in {x \in EdgesTo(referrals_table, r) :
                                          x.level < MaxLevel}}
        /\ UNCHANGED <<referral_earnings_table, point_transactions, bonus_points,
                       triggers>>
        /\ UNCHANGED outsideLedger

\* awardSignupBonus without the test of the referral's status
awardSignupBonus_EveryTrigger(table, points, referral, now) ==
    [table |-> (table \ {referral})
                 \cup {[referral EXCEPT !.status = "completed",
                                        !.points_awarded = Bonus(referral.level),
                                        !.completed_at = now]},
     points |-> [points EXCEPT ![referral.referrer_id] = @ + Bonus(referral.level)]]

\* awardSignupBonus(referral): a referral that goes from pending to completed
\* awards the bonus of its level to the referrer and records completed_at
awardSignupBonus(table, points, referral, now) ==
    IF referral.status = "pending"
    THEN [table |-> (table \ {referral})
                      \cup {[referral EXCEPT !.status = "completed",
                                             !.points_awarded = Bonus(referral.level),
                                             !.completed_at = now]},
          points |-> [points EXCEPT ![referral.referrer_id] = @ + Bonus(referral.level)]]
    ELSE [table |-> table, points |-> points]

\* The completion of a referral is triggered, for the first time or again
CompleteReferral ==
    \E referral \in referrals_table :
        /\ triggers < MaxTriggers
        /\ triggers' = triggers + 1
        /\ LET out == awardSignupBonus(referrals_table, bonus_points, referral,
                                       Time(clock))
           IN /\ referrals_table' = out.table
              /\ bonus_points' = out.points
        /\ UNCHANGED <<registered, referred_by, referral_earnings_table,
                       point_transactions>>
        /\ UNCHANGED outsideLedger

\* computeCommission with the commission rounded down
computeCommission_Floor(table, transaction_id, u, points) ==
    LET Emit[L \in 0..MaxLevel] ==
            IF L = 0 THEN <<>>
            ELSE Emit[L - 1]
                 \o (IF \E e \in EdgesTo(table, u) : e.level = L
                     THEN LET e == CHOOSE x \in EdgesTo(table, u) : x.level = L
                          IN <<[referrer_id |-> e.referrer_id, referred_id |-> u,
                                transaction_id |-> transaction_id,
                                original_points |-> points,
                                commission_percentage |-> CommissionPercentage(L),
                                commission_points |->
                                    (points * CommissionPercentage(L)) \div 100,
                                level |-> L]>>
                     ELSE <<>>)
    IN Emit[MaxLevel]

\* computeCommission(transaction, ancestorChain): one ReferralEarning for each
\* ancestor at level L of the chain, with round(points x rate(L)) points
computeCommission(table, transaction_id, u, points) ==
    LET Emit[L \in 0..MaxLevel] ==
            IF L = 0 THEN <<>>
            ELSE Emit[L - 1]
                 \o (IF \E e \in EdgesTo(table, u) : e.level = L
                     THEN LET e == CHOOSE x \in EdgesTo(table, u) : x.level = L
                          IN <<[referrer_id |-> e.referrer_id, referred_id |-> u,
                                transaction_id |-> transaction_id,
                                original_points |-> points,
                                commission_percentage |-> CommissionPercentage(L),
                                commission_points |->
                                    Round(points * CommissionPercentage(L), 100),
                                level |-> L]>>
                     ELSE <<>>)
    IN Emit[MaxLevel]

\* A registered user earns points in a transaction
EarnPoints ==
    \E u \in registered, points \in TransactionPoints :
        /\ Len(point_transactions) < MaxTransactions
        /\ point_transactions' =
              Append(point_transactions, [user_id |-> u, points |-> points])
        /\ referral_earnings_table' =
              referral_earnings_table
              \o computeCommission(referrals_table, Len(point_transactions) + 1,
                                   u, points)
        /\ UNCHANGED <<registered, referred_by, referrals_table, bonus_points,
                       triggers>>
        /\ UNCHANGED outsideLedger

----------------------------------------------------------------------------
(* Dashboard: connection check, statistics and recent activity *)

\* lib/supabase: the client is configured in a deployed build
isSupabaseConfigured == TRUE

DashUsers == {"u1", "u2"}

\* Rows of the table transactions in the model, newest first; age is where
\* created_at lies: today, earlier within the last seven days, or older
TransactionRows ==
    {[type |-> "earn", age |-> "today", points |-> 5],
     [type |-> "earn", age |-> "week", points |-> 3],
     [type |-> "earn", age |-> "older", points |-> 7],
     [type |-> "redeem", age |-> "today", points |-> 2]}

\* useState of stats
InitialDashStats ==
    [todayEarned |-> 0, tasksCompleted |-> 0, totalTransactions |-> 0,
     weeklyEarned |-> 0]

\* message.includes(part) for the messages of the model
Includes(message, part) ==
    <<message, part>> \in
        {<<"Connection timeout", "Connection timeout">>,
         <<"Connection timeout", "timeout">>,
         <<"Failed to fetch", "Failed to fetch">>,
         <<"socket timeout", "timeout">>,
         <<"Query timeout", "timeout">>,
         <<"Recent activity timeout", "timeout">>,
         <<"canceling statement due to statement timeout", "timeout">>}

\* What Promise.race of the connection query and its 3-second timer settles
\* to: the query resolved (with rows or with an error object), or a rejection
\* with this message
CheckOutcomes ==
    {"resolved", "Connection timeout", "Failed to fetch", "socket timeout",
     "Internal error"}

\* The connectionError a failed check sets
ConnectionMessage(message) ==
    IF Includes(message, "Failed to fetch") \/ Includes(message, "Connection timeout")
    THEN "Network connection failed. Please check your internet connection."
    ELSE IF Includes(message, "timeout")
    THEN "Database connection timed out. Please try again."
    ELSE "Unable to connect to database. Please try again later."

\* The four queries of fetchDashboardData and what each settles to: fulfilled
\* with rows, fulfilled with an error and no rows, or rejected by its timer
Queries == {"today", "weekly", "tasks", "transactions"}
QueryOutcomes == {"data", "error", "timeout"}
NoResults == [q \in Queries |-> "none"]

\* A race of a run that has settled; NoneSettled: none has since the last effect
Settled(run, race, outcome, results) ==
    [run |-> run, race |-> race, outcome |-> outcome, results |-> results]
NoneSettled == Settled(0, "none", "none", NoResults)

\* .eq('type', 'earn').gte('created_at', today) and (..., weekAgo)
TodayRows(rows) ==
    SelectSeq(rows, LAMBDA t : t.type = "earn" /\ t.age = "today")
WeeklyRows(rows) ==
    SelectSeq(rows, LAMBDA t : t.type = "earn" /\ t.age \in {"today", "week"})

\* data.reduce((sum, t) => sum + t.points, 0)
RECURSIVE PointsSum(_)
PointsSum(data) ==
    IF data = <<>> THEN 0
    ELSE PointsSum(SubSeq(data, 1, Len(data) - 1)) + data[Len(data)].points

\* fetchDashboardData with one failed query zeroing every statistic
SettledStats_AllOrNothing(results, rows, tasks) ==
    IF \E q \in Queries : results[q] # "data"
    THEN InitialDashStats
    ELSE [todayEarned |-> PointsSum(TodayRows(rows)),
          tasksCompleted |-> tasks,
          totalTransactions |-> Len(rows),
          weeklyEarned |-> PointsSum(WeeklyRows(rows))]

\* The stats fetchDashboardData sets from the settled results of its queries
SettledStats(results, rows, tasks) ==
    [todayEarned |-> IF results["today"] = "data"
                     THEN PointsSum(TodayRows(rows)) ELSE 0,
     tasksCompleted |-> IF results["tasks"] = "data" THEN tasks ELSE 0,
     totalTransactions |-> IF results["transactions"] = "data"
                           THEN Len(rows) ELSE 0,
     weeklyEarned |-> IF results["weekly"] = "data"
                      THEN PointsSum(WeeklyRows(rows)) ELSE 0]

\* fetchDashboardData without the test of databaseConnected
fetchDashboardData_NoConnectedTest(closure, prev) ==
    IF closure.user = Null \/ ~isSupabaseConfigured
    THEN [data |-> "returned early", stats |-> prev]
    ELSE IF ~closure.userProfile
    THEN [data |-> "no profile", stats |-> InitialDashStats]
    ELSE [data |-> "queries issued", stats |-> prev]

\* fetchDashboardData up to its queries, with the user, userProfile and
\* databaseConnected of the render whose closure calls it
fetchDashboardData(closure, prev) ==
    IF closure.user = Null \/ ~isSupabaseConfigured \/ ~closure.databaseConnected
    THEN [data |-> "returned early", stats |-> prev]
    ELSE IF ~closure.userProfile
    THEN [data |-> "no profile", stats |-> InitialDashStats]
    ELSE [data |-> "queries issued", stats |-> prev]

\* checkDatabaseConnection that leaves loading alone when the check fails
checkDatabaseConnection_NoFinally(outcome, closure, prev, loadingNow) ==
    IF outcome = "resolved"
    THEN LET f == fetchDashboardData(closure, prev)
         IN [databaseConnected |-> TRUE, connectionError |-> Null,
             loading |-> FALSE, data |-> f.data, stats |-> f.stats]
    ELSE [databaseConnected |-> FALSE,
          connectionError |-> ConnectionMessage(outcome),
          loading |-> loadingNow, data |-> "not called", stats |-> prev]

\* checkDatabaseConnection from the settling of its race to its end
checkDatabaseConnection(outcome, closure, prev, loadingNow) ==
    IF outcome = "resolved"
    THEN LET f == fetchDashboardData(closure, prev)
         IN [databaseConnected |-> TRUE, connectionError |-> Null,
             loading |-> FALSE, data |-> f.data, stats |-> f.stats]
    ELSE [databaseConnected |-> FALSE,
          connectionError |-> ConnectionMessage(outcome),
          loading |-> FALSE, data |-> "not called", stats |-> prev]

\* What the race of fetchRecentActivity settles to: rows, an error object
\* with this message (Null: without one), or the rejection of the 5-second timer
ActivityOutcomes ==
    {"data", "Recent activity timeout", "Failed to fetch", "permission denied",
     "canceling statement due to statement timeout", Null}

ActivityLimit == 15

\* .order('created_at', { ascending: false }).limit(15)
RecentRows(rows) ==
    SubSeq(rows, 1, IF Len(rows) < ActivityLimit THEN Len(rows) ELSE ActivityLimit)

\* fetchRecentActivity that keeps the list it had when the fetch fails
fetchRecentActivity_KeepsList(outcome, rows, prev) ==
    IF outcome = "data"
    THEN [recentTransactions |-> RecentRows(rows), toast |-> FALSE]
    ELSE [recentTransactions |-> prev,
          toast |-> outcome # Null /\ ~Includes(outcome, "timeout")]

\* fetchRecentActivity from the settling of its race to its end
fetchRecentActivity(outcome, rows, prev) ==
    IF outcome = "data"
    THEN [recentTransactions |-> RecentRows(rows), toast |-> FALSE]
    ELSE [recentTransactions |-> <<>>,
          toast |-> outcome # Null /\ ~Includes(outcome, "timeout")]

\* useEffect([user]): useAuth hands the Dashboard its first or a new user
DashboardEffect ==
    \E u \in DashUsers \cup {Null}, profile \in BOOLEAN :
        /\ effects < MaxEffects
        /\ effects = 0 \/ u # dashUser
        /\ u = Null => ~profile
        /\ effects' = effects + 1
        /\ dashUser' = u
        /\ userProfile' = profile
        /\ IF u # Null /\ isSupabaseConfigured
           THEN /\ dashLoading' = TRUE
                /\ runs' = Append(runs,
                      [pc |-> "check",
                       closure |-> [user |-> u, userProfile |-> profile,
                                    databaseConnected |-> databaseConnected],
                       data |-> "not called"])
                /\ UNCHANGED <<databaseConnected, connectionError>>
           ELSE /\ dashLoading' = FALSE
                /\ databaseConnected' = FALSE
                /\ connectionError' = Null
                /\ UNCHANGED runs
        /\ settled' = NoneSettled
        /\ UNCHANGED <<user_transactions, user_tasks, dashStats, recentTransactions,
                       activityLoading, toasts>>
        /\ UNCHANGED outsideDashboard

\* The race of a run of checkDatabaseConnection settles
CheckAnswer ==
    \E i \in 1..Len(runs), outcome \in CheckOutcomes :
        /\ runs[i].pc = "check"
        /\ LET out == checkDatabaseConnection(outcome, runs[i].closure, dashStats,
                                              dashLoading)
           IN /\ databaseConnected' = out.databaseConnected
              /\ connectionError' = out.connectionError
              /\ dashLoading' = out.loading
              /\ dashStats' = out.stats
              /\ runs' = [runs EXCEPT
                            ![i].data = out.data,
                            ![i].pc = IF out.data = "queries issued"
                                      THEN "data" ELSE "done"]
              /\ settled' = Settled(i, "check", outcome, NoResults)
        /\ UNCHANGED <<dashUser, userProfile, user_transactions, user_tasks,
                       recentTransactions, activityLoading, toasts, effects>>
        /\ UNCHANGED outsideDashboard

\* Promise.allSettled of the four queries of a run settles: fetchDashboardData
\* sets stats and calls fetchRecentActivity, which starts its query
DataAnswer ==
    \E i \in 1..Len(runs), results \in [Queries -> QueryOutcomes] :
        /\ runs[i].pc = "data"
        /\ dashStats' = SettledStats(results, user_transactions, user_tasks)
        /\ activityLoading' = TRUE
        /\ runs' = [runs EXCEPT ![i].pc = "activity"]
        /\ settled' = Settled(i, "data", "settled", results)
        /\ UNCHANGED <<dashUser, userProfile, user_transactions, user_tasks,
                       recentTransactions, dashLoading, databaseConnected,
                       connectionError, toasts, effects>>
        /\ UNCHANGED outsideDashboard

\* The race of fetchRecentActivity of a run settles
ActivityAnswer ==
    \E i \in 1..Len(runs), outcome \in ActivityOutcomes :
        /\ runs[i].pc = "activity"
        /\ LET out == fetchRecentActivity(outcome, user_transactions,
                                          recentTransactions)
           IN /\ recentTransactions' = out.recentTransactions
              /\ toasts' = IF out.toast
                           THEN Append(toasts, "Failed to load recent activity")
                           ELSE toasts
        /\ activityLoading' = FALSE
        /\ runs' = [runs EXCEPT ![i].pc = "done"]
        /\ settled' = Settled(i, "activity", outcome, NoResults)
        /\ UNCHANGED <<dashUser, userProfile, user_transactions, user_tasks,
                       dashStats, dashLoading, databaseConnected, connectionError,
                       effects>>
        /\ UNCHANGED outsideDashboard

----------------------------------------------------------------------------
(* SubscriptionManagement: the admin page of subscription availability *)

\* The permission sets useAdmin may grant
PermissionSets == {{}, {"*"}, {"system.manage"}, {"users.view"}}

\* hasPermission(p) of useAdmin
hasPermission(perms, p) == p \in perms

\* A row of subscription availability
Item(id, subscription_id, in_stock) ==
    [id |-> id, subscription_id |-> subscription_id, in_stock |-> in_stock]

\* What ?action=list may answer with: the rows of the table
ServerLists ==
    {<<>>,
     <<Item("s1", "netflix", TRUE)>>,
     <<Item("s1", "netflix", TRUE), Item("s2", "spotify_premium", FALSE)>>}

\* useState of formData, and the forms the admin types
EmptyForm ==
    [subscription_id |-> "", subscription_name |-> "", duration |-> "",
     category |-> "streaming"]
Forms ==
    {EmptyForm,
     [subscription_id |-> "New Service", subscription_name |-> "New",
      duration |-> " 1 month ", category |-> "other"],
     [subscription_id |-> " Netflix ", subscription_name |-> "",
      duration |-> "", category |-> "streaming"]}

\* text.trim() and text.trim().toLowerCase().replace(/\s+/g, '_') for the
\* texts of the model
Trim(text) ==
    CASE text = " 1 month " -> "1 month"
      [] text = " Netflix " -> "Netflix"
      [] OTHER -> text
NormalizeId(text) ==
    CASE text = "New Service" -> "new_service"
      [] text = " Netflix " -> "netflix"
      [] OTHER -> text

\* The guard of line 84 and its negation in the handlers
MayManage(perms) == hasPermission(perms, "*") \/ hasPermission(perms, "system.manage")

\* The guards of toggleAvailability: the toast it ends with, or "started"
toggleAvailability(perms) ==
    IF ~isSupabaseConfigured THEN "Database not configured"
    ELSE IF ~hasPermission(perms, "*") /\ ~hasPermission(perms, "system.manage")
    THEN "You do not have permission to update subscription availability"
    ELSE "started"

\* The guards of addNewSubscription
addNewSubscription(perms, form) ==
    IF ~isSupabaseConfigured THEN "Database not configured"
    ELSE IF ~hasPermission(perms, "*") /\ ~hasPermission(perms, "system.manage")
    THEN "You do not have permission to add subscription availability"
    ELSE IF Falsy(form.subscription_id) \/ Falsy(form.duration)
    THEN "Please fill in all required fields"
    ELSE "started"

\* deleteSubscription without the test of the permissions
deleteSubscription_NoPermissionTest(perms, confirmed) ==
    IF ~isSupabaseConfigured THEN "Database not configured"
    ELSE IF ~confirmed THEN "cancelled"
    ELSE "started"

\* The guards of deleteSubscription; confirmed is the answer to confirm()
deleteSubscription(perms, confirmed) ==
    IF ~isSupabaseConfigured THEN "Database not configured"
    ELSE IF ~hasPermission(perms, "*") /\ ~hasPermission(perms, "system.manage")
    THEN "You do not have permission to delete subscription availability"
    ELSE IF ~confirmed THEN "cancelled"
    ELSE "started"

\* A handler call in progress: awaiting getSession ("session") or the
\* response of the endpoint ("fetch")
Op(op, id, currentStatus, form) ==
    [op |-> op, id |-> id, currentStatus |-> currentStatus, form |-> form,
     pc |-> "session"]
ListOp == Op("list", Null, FALSE, EmptyForm)

\* The request a call sends to admin-subscriptions
Request(o) ==
    [action |-> o.op,
     method |-> IF o.op = "list" THEN "GET" ELSE "POST",
     id |-> o.id,
     subscription_id |-> IF o.op = "add" THEN NormalizeId(o.form.subscription_id)
                         ELSE Null,
     duration |-> IF o.op = "add" THEN Trim(o.form.duration) ELSE Null]

\* What the endpoint may answer a call with. "failed": response.ok is false
\* or fetch rejects; the other answers have response.ok
Answers(o) ==
    CASE o.op = "list" ->
            {[kind |-> "failed", data |-> <<>>], [kind |-> "not an array", data |-> <<>>]}
            \cup {[kind |-> "ok", data |-> l] : l \in ServerLists}
      [] o.op = "toggle" ->
            {[kind |-> k, data |-> <<>>] : k \in {"failed", "no id", "ok"}}
      [] o.op = "add" ->
            {[kind |-> "failed", data |-> <<>>], [kind |-> "no data", data |-> <<>>],
             [kind |-> "ok",
              data |-> <<Item("s3", NormalizeId(o.form.subscription_id), TRUE)>>]}
      [] OTHER ->
            {[kind |-> k, data |-> <<>>] : k \in {"failed", "ok"}}

\* prev.map(sub => sub.id === id ? { ...sub, in_stock: !currentStatus } : sub)
SetStock(list, id, in_stock) ==
    [i \in 1..Len(list) |->
        IF list[i].id = id THEN [list[i] EXCEPT !.in_stock = in_stock] ELSE list[i]]

\* prev.filter(sub => sub.id !== id)
WithoutId(list, id) == SelectSeq(list, LAMBDA sub : sub.id # id)

\* The React state of the page a call ends on
PageState ==
    [subscriptions |-> subscriptions, processingId |-> processingId,
     loading |-> subsLoading, refreshing |-> subsRefreshing,
     showAddModal |-> showAddModal, formData |-> formData, toast |-> subToast]

\* The rest of a call from the answer to its end: try, catch and finally.
\* "no session" is the answer of a call that getSession gave no session
Finish(o, answer, st) ==
    CASE o.op = "list" ->
            [st EXCEPT
               !.subscriptions = IF answer.kind = "ok" THEN answer.data
                                 ELSE IF answer.kind = "not an array" THEN <<>>
                                 ELSE @,
               !.toast = IF answer.kind = "ok" THEN @
                         ELSE IF answer.kind = "not an array"
                         THEN "Received invalid data format from server"
                         ELSE "Failed to load subscription availability data",
               !.loading = FALSE,
               !.refreshing = FALSE]
      [] o.op = "toggle" ->
            [st EXCEPT
               !.subscriptions = IF answer.kind = "ok"
                                 THEN SetStock(@, o.id, ~o.currentStatus) ELSE @,
               !.toast = IF answer.kind = "ok"
                         THEN (IF ~o.currentStatus
                               THEN "Subscription marked as in stock"
                               ELSE "Subscription marked as out of stock")
                         ELSE "Failed to update subscription availability",
               !.processingId = Null]
      [] o.op = "add" ->
            [st EXCEPT
               !.subscriptions = IF answer.kind = "ok" THEN @ \o answer.data ELSE @,
               !.toast = IF answer.kind \in {"ok", "no data"}
                         THEN "New subscription availability added"
                         ELSE "Failed to add subscription availability",
               !.showAddModal = IF answer.kind \in {"ok", "no data"} THEN FALSE ELSE @,
               !.formData = IF answer.kind \in {"ok", "no data"} THEN EmptyForm ELSE @,
               !.loading = FALSE]
      [] OTHER ->
            [st EXCEPT
               !.subscriptions = IF answer.kind = "ok" THEN WithoutId(@, o.id) ELSE @,
               !.toast = IF answer.kind = "ok"
                         THEN "Subscription availability deleted"
                         ELSE "Failed to delete subscription availability",
               !.processingId = Null,
               !.loading = FALSE]

\* The sequence without its i-th element
Remove(seq, i) == SubSeq(seq, 1, i - 1) \o SubSeq(seq, i + 1, Len(seq))

\* The page takes the React state st
SetPageState(st) ==
    /\ subscriptions' = st.subscriptions
    /\ processingId' = st.processingId
    /\ subsLoading' = st.loading
    /\ subsRefreshing' = st.refreshing
    /\ showAddModal' = st.showAddModal
    /\ formData' = st.formData
    /\ subToast' = st.toast

\* useAdmin grants other permissions; the effect on [hasPermission] runs
\* fetchSubscriptionAvailability up to getSession when they allow it
PermissionsChange ==
    \E perms \in PermissionSets \ {permissions} :
        /\ calls < MaxCalls
        /\ calls' = calls + 1
        /\ permissions' = perms
        /\ IF MayManage(perms)
           THEN /\ subsRefreshing' = TRUE
                /\ ops' = Append(ops, ListOp)
           ELSE UNCHANGED <<subsRefreshing, ops>>
        /\ UNCHANGED <<subscriptions, processingId, subsLoading, showAddModal,
                       formData, sent, subToast>>
        /\ UNCHANGED outsideSubscriptions

\* The Refresh button, disabled while refreshing:
\* fetchSubscriptionAvailability up to getSession
RefreshCall ==
    /\ calls < MaxCalls
    /\ MayManage(permissions)
    /\ ~subsRefreshing
    /\ calls' = calls + 1
    /\ subsRefreshing' = TRUE
    /\ ops' = Append(ops, ListOp)
    /\ UNCHANGED <<permissions, subscriptions, processingId, subsLoading,
                   showAddModal, formData, sent, subToast>>
    /\ UNCHANGED outsideSubscriptions

\* The toggle button of a listed item, disabled while processingId is the
\* item's id: toggleAvailability up to getSession
ToggleCall ==
    \E i \in 1..Len(subscriptions) :
        /\ calls < MaxCalls
        /\ processingId # subscriptions[i].id
        /\ calls' = calls + 1
        /\ IF toggleAvailability(permissions) = "started"
           THEN /\ processingId' = subscriptions[i].id
                /\ ops' = Append(ops, Op("toggle", subscriptions[i].id,
                                         subscriptions[i].in_stock, EmptyForm))
                /\ UNCHANGED subToast
           ELSE /\ subToast' = toggleAvailability(permissions)
                /\ UNCHANGED <<processingId, ops>>
        /\ UNCHANGED <<permissions, subscriptions, subsLoading, subsRefreshing,
                       showAddModal, formData, sent>>
        /\ UNCHANGED outsideSubscriptions

\* The admin opens the modal, types the form and clicks Add:
\* addNewSubscription up to getSession
AddCall ==
    \E form \in Forms :
        /\ calls < MaxCalls
        /\ calls' = calls + 1
        /\ showAddModal' = TRUE
        /\ formData' = form
        /\ IF addNewSubscription(permissions, form) = "started"
           THEN /\ subsLoading' = TRUE
                /\ ops' = Append(ops, Op("add", Null, FALSE, form))
                /\ UNCHANGED subToast
           ELSE /\ subToast' = addNewSubscription(permissions, form)
                /\ UNCHANGED <<subsLoading, ops>>
        /\ UNCHANGED <<permissions, subscriptions, processingId, subsRefreshing,
                       sent>>
        /\ UNCHANGED outsideSubscriptions

\* The delete button of a listed item, disabled while processingId is the
\* item's id: deleteSubscription up to getSession
DeleteCall ==
    \E i \in 1..Len(subscriptions), confirmed \in BOOLEAN :
        /\ calls < MaxCalls
        /\ processingId # subscriptions[i].id
        /\ calls' = calls + 1
        /\ LET r == deleteSubscription(permissions, confirmed)
           IN IF r = "started"
              THEN /\ processingId' = subscriptions[i].id
                   /\ subsLoading' = TRUE
                   /\ ops' = Append(ops, Op("delete", subscriptions[i].id, FALSE,
                                            EmptyForm))
                   /\ UNCHANGED subToast
              ELSE /\ subToast' = IF r = "cancelled" THEN subToast ELSE r
                   /\ UNCHANGED <<processingId, subsLoading, ops>>
        /\ UNCHANGED <<permissions, subscriptions, subsRefreshing, showAddModal,
                       formData, sent>>
        /\ UNCHANGED outsideSubscriptions

\* getSession answers a call: with a session the call sends its request,
\* without one it throws and ends
SessionAnswer ==
    \E i \in 1..Len(ops), session \in BOOLEAN :
        /\ ops[i].pc = "session"
        /\ IF session
           THEN /\ sent' = Append(sent, Request(ops[i]))
                /\ ops' = [ops EXCEPT ![i].pc = "fetch"]
                /\ UNCHANGED <<subscriptions, processingId, subsLoading,
                               subsRefreshing, showAddModal, formData, subToast>>
           ELSE /\ SetPageState(Finish(ops[i], [kind |-> "failed", data |-> <<>>],
                                       PageState))
                /\ ops' = Remove(ops, i)
                /\ UNCHANGED sent
        /\ UNCHANGED <<permissions, calls>>
        /\ UNCHANGED outsideSubscriptions

\* The endpoint answers the request of a call, and the call ends
EndpointAnswer ==
    \E i \in 1..Len(ops) :
        /\ ops[i].pc = "fetch"
        /\ \E answer \in Answers(ops[i]) :
              SetPageState(Finish(ops[i], answer, PageState))
        /\ ops' = Remove(ops, i)
        /\ UNCHANGED <<permissions, sent, calls>>
        /\ UNCHANGED outsideSubscriptions

----------------------------------------------------------------------------
(* Specifications *)

AdminInit ==
    /\ redemption_requests = [r \in RequestIds |-> PendingRow]
    /\ profiles = [u \in UserIds |-> [points |-> 1, total_earned |-> 1]]
    /\ transactions = <<>>
    /\ banned = [u \in UserIds |-> "none"]
    /\ served = 0
    /\ clock = 0
    /\ req = NoRequest
    /\ body = Unread
    /\ resp = NoResponse

\* The page before its first effect, over any content of the two tables
PageInit ==
    /\ sessionUser \in {Null, "u1"}
    /\ store_referrals \in SeqsUpTo(ReferralRows, MaxRows)
    /\ store_earnings \in SeqsUpTo(EarningRows, MaxRows)
    /\ stats = InitialStats
    /\ referrals = <<>>
    /\ earnings = <<>>
    /\ loading = TRUE
    /\ refreshing = FALSE
    /\ refreshes = 0
    /\ pcReferrals = [c \in Callers |-> "idle"]
    /\ pcEarnings = [c \in Callers |-> "idle"]

\* Nobody has the page open and the referrer has no rows
PageClosed ==
    /\ PageInit
    /\ sessionUser = Null
    /\ store_referrals = <<>>
    /\ store_earnings = <<>>

\* Nobody has registered yet
LedgerInit ==
    /\ registered = {}
    /\ referred_by = [u \in MemberIds |-> Null]
    /\ referrals_table = {}
    /\ referral_earnings_table = <<>>
    /\ point_transactions = <<>>
    /\ bonus_points = [u \in MemberIds |-> 0]
    /\ triggers = 0

\* The Dashboard before its first effect, over any rows of its user
DashboardInit ==
    /\ dashUser = Null
    /\ userProfile = FALSE
    /\ user_transactions \in SeqsUpTo(TransactionRows, MaxUserRows)
    /\ user_tasks \in 0..MaxUserRows
    /\ dashStats = InitialDashStats
    /\ recentTransactions = <<>>
    /\ dashLoading = FALSE
    /\ activityLoading = FALSE
    /\ databaseConnected = FALSE
    /\ connectionError = Null
    /\ toasts = <<>>
    /\ runs = <<>>
    /\ effects = 0
    /\ settled = NoneSettled

\* Nobody has the Dashboard open and its user has no rows
DashboardClosed ==
    /\ DashboardInit
    /\ user_transactions = <<>>
    /\ user_tasks = 0

\* SubscriptionManagement after its first render and effect, with any
\* permissions: the effect has called fetchSubscriptionAvailability when they
\* allow it
SubscriptionsInit ==
    /\ permissions \in PermissionSets
    /\ subscriptions = <<>>
    /\ processingId = Null
    /\ subsLoading = TRUE
    /\ subsRefreshing = MayManage(permissions)
    /\ showAddModal = FALSE
    /\ formData = EmptyForm
    /\ ops = IF MayManage(permissions) THEN <<ListOp>> ELSE <<>>
    /\ sent = <<>>
    /\ subToast = Null
    /\ calls = 0

\* Nobody has SubscriptionManagement open
SubscriptionsClosed ==
    /\ SubscriptionsInit
    /\ permissions = {}

\* Any caller, before any check
AuthInit ==
    /\ authEmail \in Emails
    /\ decisions = Undecided

\* No caller
AuthClosed ==
    /\ AuthInit
    /\ authEmail = Null

\* No request is being served
WorkersInit == workers = [w \in Workers |-> Idle]

Init ==
    /\ AdminInit /\ PageInit /\ LedgerInit /\ DashboardInit /\ SubscriptionsInit
    /\ AuthInit /\ WorkersInit

\* The admin functions with nobody on the page
InitAdmin ==
    /\ AdminInit /\ PageClosed /\ LedgerInit /\ DashboardClosed /\ SubscriptionsClosed
    /\ AuthClosed /\ WorkersInit

\* The referral page over any content of its tables
InitPage ==
    /\ AdminInit /\ PageInit /\ LedgerInit /\ DashboardClosed /\ SubscriptionsClosed
    /\ AuthClosed /\ WorkersInit

\* The Dashboard over any rows of its user
InitDashboard ==
    /\ AdminInit /\ PageClosed /\ LedgerInit /\ DashboardInit /\ SubscriptionsClosed
    /\ AuthClosed /\ WorkersInit

\* SubscriptionManagement with any permissions
InitSubscriptions ==
    /\ AdminInit /\ PageClosed /\ LedgerInit /\ DashboardClosed /\ SubscriptionsInit
    /\ AuthClosed /\ WorkersInit

\* The admin checks of any caller
InitAuth ==
    /\ AdminInit /\ PageClosed /\ LedgerInit /\ DashboardClosed /\ SubscriptionsClosed
    /\ AuthInit /\ WorkersInit

Next ==
    \/ UsersCheck \/ RedemptionsCheck \/ PolicyCheck
    \/ StartUpdatePoints \/ SelectProfile \/ UpdateProfile \/ InsertTransaction
    \/ ServeUsers \/ ServeRedemptions \/ Reply \/ Tick
    \/ Mount \/ RefreshData \/ ReferralsAnswer \/ EarningsAnswer \/ DeleteRows
    \/ Register \/ CompleteReferral \/ EarnPoints
    \/ DashboardEffect \/ CheckAnswer \/ DataAnswer \/ ActivityAnswer
    \/ PermissionsChange \/ RefreshCall \/ ToggleCall \/ AddCall \/ DeleteCall
    \/ SessionAnswer \/ EndpointAnswer

Spec == Init /\ [][Next]_vars

\* The admin-redemptions function alone
NextRedemptions == ServeRedemptions \/ Reply \/ Tick
SpecRedemptions == InitAdmin /\ [][NextRedemptions]_vars

\* The admin-users function alone
NextUsers == ServeUsers \/ Reply \/ Tick
SpecUsers == InitAdmin /\ [][NextUsers]_vars

\* Both functions on the one database
NextAdmin == ServeUsers \/ ServeRedemptions \/ Reply \/ Tick
SpecAdmin == InitAdmin /\ [][NextAdmin]_vars

\* The referral page alone
NextPage == Mount \/ RefreshData \/ ReferralsAnswer \/ EarningsAnswer \/ DeleteRows
SpecPage == InitPage /\ [][NextPage]_vars

\* The referral page over tables that no other session changes
NextStablePage == Mount \/ RefreshData \/ ReferralsAnswer \/ EarningsAnswer
SpecStablePage == InitPage /\ [][NextStablePage]_vars

\* The referral policy alone
NextLedger == Register \/ CompleteReferral \/ EarnPoints
SpecLedger == InitAdmin /\ [][NextLedger]_vars

\* The Dashboard alone
NextDashboard == DashboardEffect \/ CheckAnswer \/ DataAnswer \/ ActivityAnswer
SpecDashboard == InitDashboard /\ [][NextDashboard]_vars

\* SubscriptionManagement alone
NextSubscriptions ==
    \/ PermissionsChange \/ RefreshCall \/ ToggleCall \/ AddCall \/ DeleteCall
    \/ SessionAnswer \/ EndpointAnswer
SpecSubscriptions == InitSubscriptions /\ [][NextSubscriptions]_vars

\* update-points requests served side by side
NextWorkers ==
    StartUpdatePoints \/ SelectProfile \/ UpdateProfile \/ InsertTransaction
SpecWorkers == InitAdmin /\ [][NextWorkers]_vars

\* The admin checks alone
NextAuth == UsersCheck \/ RedemptionsCheck \/ PolicyCheck
SpecAuth == InitAuth /\ [][NextAuth]_vars

\* The Dashboard of a user without rows, with its timers: every race
\* settles, by the answer of its query or by its timer after 3 or 5 seconds
FairDashboard ==
    /\ InitAdmin /\ [][NextDashboard]_vars
    /\ WF_vars(CheckAnswer) /\ WF_vars(DataAnswer) /\ WF_vars(ActivityAnswer)

----------------------------------------------------------------------------
(* Properties of the admin functions *)

\* A step in which a function serves a request
ServedStep == req = NoRequest /\ req' # NoRequest

\* The step leaves every table as it was
StoreUnchanged ==
    UNCHANGED <<redemption_requests, profiles, transactions, banned>>

\* The request just served ran this handler on a JSON body
Ran(handler) == resp.handler = handler /\ body.kind = "json"
RanNext(handler) == resp'.handler = handler /\ body'.kind = "json"

\* C1: an update request with newStatus = 'completed' and a missing or empty
\* activationCode is answered 400 and updates no redemption_requests row.
C1_CompletedNeedsCode ==
    [][(ServedStep /\ RanNext("handleUpdateRedemption")
        /\ body'.newStatus = "completed" /\ body'.activationCode \in {Null, Empty})
       => (resp'.status = 400 /\ ~resp'.wrote
           /\ redemption_requests' = redemption_requests)]_vars

C1_Witness ==
    /\ Ran("handleUpdateRedemption")
    /\ body.requestId = "r1"
    /\ body.newStatus = "completed"
    /\ body.activationCode = Empty
    /\ resp.status = 400

\* C2: a redemption request whose status is completed, failed or cancelled
\* never changes status again.
C2_TerminalIsFinal ==
    [][\A r \in RequestIds :
          redemption_requests[r].status \in {"completed", "failed", "cancelled"}
          => redemption_requests'[r].status = redemption_requests[r].status]_vars

\* C3: in every reachable state the status of each redemption request is one
\* of pending, completed, failed, cancelled.
C3_StatusInDomain ==
    \A r \in RequestIds :
        redemption_requests[r].status \in {"pending", "completed", "failed", "cancelled"}

\* C4: a successful update to 'completed' stores the given activation code,
\* sets completed_at to the current time and expires_at to exactly 30 days
\* after the current time; the current time is a reading of the clock taken
\* while the request is served.
C4_CompletedFields ==
    [][(ServedStep /\ RanNext("handleUpdateRedemption")
        /\ body'.newStatus = "completed" /\ resp'.status = 200)
       => LET row == redemption_requests'[body'.requestId] IN
          /\ row.status = "completed"
          /\ row.activation_code = body'.activationCode
          /\ row.activation_code \notin {Null, Empty}
          /\ \E t \in clock..clock' : row.completed_at = Time(t)
          /\ \E t \in clock..clock' :
                row.expires_at = [day |-> Time(t).day + 30, ms |-> Time(t).ms]]_vars

C4_Witness ==
    /\ Ran("handleUpdateRedemption")
    /\ body.newStatus = "completed"
    /\ resp.status = 200
    /\ redemption_requests["r1"].activation_code = "CODE-A"
    /\ redemption_requests["r1"].expires_at.day = 30

UnresolvedHeaders == {"Bearer expired"}
NonAdminHeaders == {"Bearer user", "Bearer noemail"}

C7_ValidationRejects ==
    [][(/\ ServedStep
        /\ \/ /\ RanNext("handleUpdatePoints")
              /\ \/ body'.userId \in {Null, Empty}
                 \/ body'.pointsToAdd.type # "number"
                 \/ body'.description \in {Null, Empty}
           \/ /\ RanNext("handleUpdateStatus")
              /\ \/ body'.userId \in {Null, Empty}
                 \/ body'.action \notin {"ban", "unban", "suspend", "activate"}
           \/ /\ RanNext("handleUpdateRedemption")
              /\ \/ body'.requestId \in {Null, Empty}
                 \/ body'.newStatus \in {Null, Empty})
       => (resp'.status = 400 /\ ~resp'.wrote /\ StoreUnchanged)]_vars

C7_Witness ==
    /\ Ran("handleUpdateStatus")
    /\ body.userId = "u1"
    /\ body.action = "delete"
    /\ resp.status = 400

\* C8: in the users function update-points and update-status are performed
\* only for POST requests; a request with any other method never changes a
\* profile, a transaction or a user's ban state.
C8_MutationsOnlyByPost ==
    [][(ServedStep /\ req'.endpoint = "admin-users" /\ req'.method # "POST")
       => UNCHANGED <<profiles, transactions, banned>>]_vars

\* C9: for a request that is not refused by authentication, the redemptions
\* function runs the list handler only for GET with action=list and the
\* update handler only for POST with action=update, an absent action being
\* list on GET and update on every other method; every other combination of
\* method and action returns 400 without reading or writing the store.
C9_RedemptionsRouting ==
    [][(ServedStep /\ req'.endpoint = "admin-redemptions"
        /\ req'.method # "OPTIONS" /\ resp'.status \notin {401, 403})
       => LET list == req'.method = "GET" /\ req'.action \in {Null, "list"}
              update == req'.method = "POST" /\ req'.action \in {Null, "update"}
          IN /\ list <=> resp'.handler = "handleListRedemptions"
             /\ update <=> resp'.handler = "handleUpdateRedemption"
             /\ (~list /\ ~update)
                => /\ resp'.status = 400
                   /\ resp'.handler = "none"
                   /\ ~resp'.read /\ ~resp'.wrote
                   /\ StoreUnchanged]_vars

C9_Witness ==
    /\ req.endpoint = "admin-redemptions"
    /\ req.method = "PUT"
    /\ req.action = Null
    /\ req.authHeader = "Bearer Admin"
    /\ resp.status = 400
    /\ resp.handler = "none"

----------------------------------------------------------------------------
(* Properties of the referral statistics *)

\* The points a column value stands for: a missing value counts as zero
Points(v) == IF v.type = "number" THEN v.value ELSE 0

\* The sum of points_awarded over the completed referrals of a table
CompletedBonuses(rows) ==
    LET done == {i \in 1..Len(rows) : rows[i].status = "completed"}
        f[S \in SUBSET done] ==
            IF S = {} THEN 0
            ELSE LET i == CHOOSE j \in S : TRUE
                 IN Points(rows[i].points_awarded) + f[S \ {i}]
    IN f[done]

\* The sum of commission_points over the earnings of a table
Commissions(rows) ==
    LET f[S \in SUBSET (1..Len(rows))] ==
            IF S = {} THEN 0
            ELSE LET i == CHOOSE j \in S : TRUE
                 IN Points(rows[i].commission_points) + f[S \ {i}]
    IN f[1..Len(rows)]

\* The two fetches of the page's effect have both completed successfully
\* and nothing else has fetched
LoadedOnce ==
    /\ pcReferrals = [effect |-> "done", refresh |-> "idle"]
    /\ pcEarnings = [effect |-> "done", refresh |-> "idle"]

\* C10: after fetchReferrals and fetchEarnings have both completed
\* successfully, in either order, stats.totalEarnings is the sum of
\* points_awarded over the referrer's completed referrals plus the sum of
\* commission_points over all of the referrer's earnings.
C10_TotalEarnings ==
    LoadedOnce
    => stats.totalEarnings
         = CompletedBonuses(store_referrals) + Commissions(store_earnings)

\* Every fetch the page has started has completed successfully, and some
\* caller has completed both of its fetches
AllFetched ==
    /\ \A c \in Callers : pcReferrals[c] \in {"idle", "done"}
                          /\ pcEarnings[c] \in {"idle", "done"}
    /\ \E c \in Callers : pcReferrals[c] = "done" /\ pcEarnings[c] = "done"

\* C11: whenever the referral query and the earnings query both return an
\* empty result set, every field of stats is 0 after the two fetches complete:
\* totalReferrals, pendingReferrals, completedReferrals, level1/2/3Referrals
\* and totalEarnings.
C11_EmptyGivesZeros ==
    (AllFetched /\ referrals = <<>> /\ earnings = <<>>) => stats = InitialStats

\* A fetch of this step received the answer of its query without an error
ReferralsFetched ==
    \E c \in Callers : pcReferrals[c] = "awaiting" /\ pcReferrals'[c] = "done"
EarningsFetched ==
    \E c \in Callers : pcEarnings[c] = "awaiting" /\ pcEarnings'[c] = "done"

\* C12: the aggregation treats a missing field as zero: a referral without
\* points_awarded or an earning without commission_points contributes 0 to
\* the sums (the other records still contribute their points), and every field
\* of stats is still a number.
C12_MissingIsZero ==
    [][/\ EarningsFetched
          => stats'.totalEarnings = stats.totalEarnings + Commissions(earnings')
       /\ (EarningsFetched \/ ReferralsFetched)
          => \A f \in DOMAIN stats' : stats'[f] \in Int]_vars

\* The number of rows with a value in a column
NumberWith(rows, column, value) ==
    Cardinality({i \in 1..Len(rows) : rows[i][column] = value})

\* C13: after a successful fetchReferrals, totalReferrals is the number of
\* returned referrals, pendingReferrals and completedReferrals are the numbers
\* of referrals with that status, and levelNReferrals is the number with level
\* N; so totalReferrals = pendingReferrals + completedReferrals
\* = level1Referrals + level2Referrals + level3Referrals.
C13_ReferralCounts ==
    [][ReferralsFetched
       => /\ stats'.totalReferrals = Len(referrals')
          /\ stats'.pendingReferrals = NumberWith(referrals', "status", "pending")
          /\ stats'.completedReferrals = NumberWith(referrals', "status", "completed")
          /\ stats'.level1Referrals = NumberWith(referrals', "level", 1)
          /\ stats'.level2Referrals = NumberWith(referrals', "level", 2)
          /\ stats'.level3Referrals = NumberWith(referrals', "level", 3)
          /\ stats'.totalReferrals
               = stats'.pendingReferrals + stats'.completedReferrals
          /\ stats'.totalReferrals
               = stats'.level1Referrals + stats'.level2Referrals
                 + stats'.level3Referrals]_vars

\* A fetch has returned a pending level-1 and a completed level-2 referral
C13_Witness ==
    /\ \E c \in Callers : pcReferrals[c] = "done"
    /\ Len(referrals) = 2
    /\ referrals[1].status = "pending" /\ referrals[1].level = 1
    /\ referrals[2].status = "completed" /\ referrals[2].level = 2
    /\ stats.totalReferrals = 2 /\ stats.level2Referrals = 1

(* Properties of the referral policy *)

\* The ancestor of a user at a distance, by the referral codes used at
\* registration (Null: there is none)
RECURSIVE Ancestor(_, _)
Ancestor(u, distance) ==
    IF u = Null THEN Null
    ELSE IF distance = 0 THEN u
    ELSE Ancestor(referred_by[u], distance - 1)

\* The length of the ancestor chain of a user
ChainLength(u) ==
    Cardinality({d \in 1..Len(Members) : Ancestor(u, d) # Null})

\* The rows of referral_earnings created for a transaction
RowsOf(t) ==
    {i \in 1..Len(referral_earnings_table) :
        referral_earnings_table[i].transaction_id = t}

\* c = round(n x percentage / 100), halves rounded up
IsRounded(c, n, percentage) ==
    /\ n * percentage - 50 < 100 * c
    /\ 100 * c <= n * percentage + 50

\* C14: for a transaction of N points by a user with an ancestor chain of
\* length k <= 3, exactly k ReferralEarning rows are created, one per ancestor
\* level L present, each with level L and commission_points
\* = round(N x rate(L)), where rate is 10%, 5%, 2% for L = 1, 2, 3
\* (N = 1000 gives 100, 50 and 20).
C14_CommissionRows ==
    \A t \in 1..Len(point_transactions) :
        LET u == point_transactions[t].user_id
            N == point_transactions[t].points
            k == ChainLength(u)
            rate == <<10, 5, 2>>
            example == <<100, 50, 20>>
        IN k <= 3
           => /\ Cardinality(RowsOf(t)) = k
              /\ \A L \in 1..k :
                    \E i \in RowsOf(t) :
                        LET row == referral_earnings_table[i]
                        IN /\ row.level = L
                           /\ row.referrer_id = Ancestor(u, L)
                           /\ IsRounded(row.commission_points, N, rate[L])
                           /\ N = 1000 => row.commission_points = example[L]

\* A user with three ancestors has earned 1000 points, and the three rows
\* of that transaction exist, the one of level 3 with 20 points
C14_Witness ==
    \E t \in 1..Len(point_transactions) :
        /\ point_transactions[t].points = 1000
        /\ ChainLength(point_transactions[t].user_id) = 3
        /\ Cardinality(RowsOf(t)) = 3
        /\ \E i \in RowsOf(t) : referral_earnings_table[i].commission_points = 20

\* The fixed bonus of a level
LevelBonus(level) == <<500, 200, 100>>[level]

\* The sum of the level bonuses of a set of referrals
BonusTotal(edges) ==
    LET f[S \in SUBSET edges] ==
            IF S = {} THEN 0
            ELSE LET e == CHOOSE x \in S : TRUE
                 IN LevelBonus(e.level) + f[S \ {e}]
    IN f[edges]

\* C15: when a referral goes from pending to completed, the referrer is
\* awarded the fixed bonus of the referral's level (500, 200 or 100 points)
\* exactly once; triggering completion again for a referral that is already
\* completed awards no further points. So the bonus points of every referrer
\* are the level bonuses of their completed referrals, however often
\* completion was triggered.
C15_BonusOnce ==
    /\ \A e \in referrals_table :
          e.points_awarded = IF e.status = "completed" THEN LevelBonus(e.level) ELSE 0
    /\ \A a \in MemberIds :
          bonus_points[a]
            = BonusTotal({e \in referrals_table :
                            e.referrer_id = a /\ e.status = "completed"})

\* Completion was triggered twice for the one level-1 referral that is
\* completed, and its referrer holds 500 bonus points
C15_Witness ==
    /\ triggers = 2
    /\ \E e \in referrals_table :
          /\ e.status = "completed" /\ e.level = 1
          /\ bonus_points[e.referrer_id] = 500
          /\ \A x \in referrals_table : x.status = "completed" => x = e

(* Properties of the Dashboard *)

\* The points of the user's earn transactions of some ages
Earned(ages) ==
    LET rows == user_transactions
        of == {i \in 1..Len(rows) : rows[i].type = "earn" /\ rows[i].age \in ages}
        f[S \in SUBSET of] ==
            IF S = {} THEN 0
            ELSE LET i == CHOOSE j \in S : TRUE
                 IN rows[i].points + f[S \ {i}]
    IN f[of]

\* Run i of the Dashboard takes this step from one position to another
Moves(i, from, to) ==
    /\ i <= Len(runs)
    /\ runs[i].pc = from
    /\ runs'[i].pc = to

\* C16: in fetchDashboardData the four statistics are independent: a query
\* that fails or exceeds its 3-second timeout sets only its own statistic to
\* 0, while the other statistics take the values computed from their own
\* successful queries.
C16_IndependentStats ==
    [][\A i \in 1..MaxEffects :
          Moves(i, "data", "activity")
          => LET r == settled'.results
             IN /\ dashStats'.todayEarned
                     = IF r["today"] = "data" THEN Earned({"today"}) ELSE 0
                /\ dashStats'.weeklyEarned
                     = IF r["weekly"] = "data" THEN Earned({"today", "week"}) ELSE 0
                /\ dashStats'.tasksCompleted
                     = IF r["tasks"] = "data" THEN user_tasks ELSE 0
                /\ dashStats'.totalTransactions
                     = IF r["transactions"] = "data"
                       THEN Len(user_transactions) ELSE 0]_vars

\* The query of today's points timed out and the weekly one failed while the
\* other two succeeded: those two statistics alone are 0
C16_Witness ==
    \E i \in 1..Len(runs) :
        /\ runs[i].pc = "activity"
        /\ settled.run = i /\ settled.race = "data"
        /\ settled.results["today"] = "timeout"
        /\ settled.results["weekly"] = "error"
        /\ settled.results["tasks"] = "data"
        /\ settled.results["transactions"] = "data"
        /\ Earned({"today"}) > 0
        /\ dashStats.todayEarned = 0 /\ dashStats.weeklyEarned = 0
        /\ dashStats.tasksCompleted > 0 /\ dashStats.totalTransactions > 0

\* C17: every run of checkDatabaseConnection eventually ends with loading =
\* false, also when the backend never answers: the timeout race then fails
\* the check, databaseConnected is false, connectionError is set, and no
\* retry is issued automatically (a check starts only with a run of the
\* effect, and a run that has ended never checks again).
C17_CheckEnds ==
    /\ \A i \in 1..MaxEffects :
          (i <= Len(runs) /\ runs[i].pc = "check")
          ~> (i <= Len(runs) /\ runs[i].pc # "check" /\ ~dashLoading)
    /\ [][/\ \A i \in 1..MaxEffects :
                /\ (Moves(i, "check", "done") \/ Moves(i, "check", "data"))
                   => ~dashLoading'
                /\ (i <= Len(runs) /\ runs[i].pc = "check"
                    /\ settled' = Settled(i, "check", "Connection timeout", NoResults))
                   => /\ runs'[i].pc = "done"
                      /\ ~databaseConnected'
                      /\ connectionError' # Null
                /\ (i <= Len(runs) /\ runs[i].pc # "check")
                   => runs'[i].pc # "check"
          /\ Len(runs') > Len(runs) => effects' = effects + 1]_vars

\* A check has ended by its timeout: the Dashboard is not loading, not
\* connected, and shows the network error
C17_Witness ==
    \E i \in 1..Len(runs) :
        /\ settled = Settled(i, "check", "Connection timeout", NoResults)
        /\ runs[i].pc = "done"
        /\ ~dashLoading
        /\ ~databaseConnected
        /\ connectionError
             = "Network connection failed. Please check your internet connection."

\* C18: when fetchRecentActivity fails or exceeds its 5-second timeout,
\* recentTransactions becomes the empty list and activityLoading returns to
\* false; an error toast is shown only when the error is not a timeout.
C18_ActivityFailure ==
    [][\A i \in 1..MaxEffects :
          (Moves(i, "activity", "done") /\ settled'.outcome # "data")
          => /\ recentTransactions' = <<>>
             /\ ~activityLoading'
             /\ toasts' # toasts
                => settled'.outcome # "Recent activity timeout"]_vars

\* A fetch of the recent activity has timed out with rows in the table: the
\* list is empty, nothing is loading and no toast was shown
C18_Witness ==
    \E i \in 1..Len(runs) :
        /\ settled = Settled(i, "activity", "Recent activity timeout", NoResults)
        /\ user_transactions # <<>>
        /\ recentTransactions = <<>>
        /\ ~activityLoading
        /\ toasts = <<>>

\* C19: whenever checkDatabaseConnection succeeds, the dashboard statistics
\* queries are then issued in the background: the fetchDashboardData call it
\* makes does not return early (and with a loaded profile it issues its
\* queries), so stats eventually reflect the store.
C19_DataFetched ==
    [][\A i \in 1..MaxEffects :
          (i <= Len(runs) /\ runs[i].pc = "check"
           /\ settled' = Settled(i, "check", "resolved", NoResults))
          => /\ runs'[i].data # "returned early"
             /\ runs[i].closure.userProfile => runs'[i].data = "queries issued"]_vars

(* Properties of SubscriptionManagement *)

\* This step is a call of toggleAvailability, addNewSubscription or
\* deleteSubscription (of the handlers, only these are called with the
\* permissions unchanged and RefreshCall needs a permission)
HandlerCalled == calls' = calls + 1 /\ permissions' = permissions

\* C20: toggleAvailability, addNewSubscription and deleteSubscription send no
\* request to the admin-subscriptions endpoint and leave the local
\* subscription list unchanged when the user has neither the '*' nor the
\* 'system.manage' permission: such a call sends nothing, leaves no call in
\* progress that could send later, and does not touch the list.
C20_NoPermissionNoRequest ==
    [][(HandlerCalled /\ "*" \notin permissions /\ "system.manage" \notin permissions)
       => /\ sent' = sent
          /\ ops' = ops
          /\ subscriptions' = subscriptions
          /\ processingId' = processingId]_vars

\* After the permissions were withdrawn, delete was called on a listed item
\* and was refused
C20_Witness ==
    /\ "*" \notin permissions /\ "system.manage" \notin permissions
    /\ subscriptions # <<>>
    /\ subToast = "You do not have permission to delete subscription availability"
    /\ calls >= 2

----------------------------------------------------------------------------
(* Properties of the admin decision *)

\* The addresses of the model that differ in nothing but the case of letters
CaseClasses ==
    {{"suzainkhan8360@gmail.com", "Suzainkhan8360@gmail.com",
      "SUZAINKHAN8360@GMAIL.COM"},
     {"admin@premiumaccesszone.com", "Admin@PremiumAccessZone.com"},
     {"support@premiumaccesszone.com", "SUPPORT@premiumaccesszone.com"},
     {"moderator@premiumaccesszone.com", "Moderator@PremiumAccessZone.COM"},
     {"user@example.com", "User@Example.com"},
     {"Admin@PremiumAccessZone.co"}, {" Admin@premiumaccesszone.com"},
     {"gmail.com"}, {Empty}}

\* The lower-cased address equals a lower-cased entry of the allow-list
OnAllowList(email) ==
    /\ email # Null
    /\ \E c \in CaseClasses, i \in 1..Len(ADMIN_EMAILS) :
           email \in c /\ ADMIN_EMAILS[i] \in c

Checks == {"users", "redemptions", "is_admin"}

\* C21: for every e-mail address, the users endpoint, the redemptions
\* endpoint and the SQL function is_admin each decide admin exactly when the
\* lower-cased address equals a lower-cased entry of the allow-list, so the
\* three decisions are the same and insensitive to the case of letters.
C21_SameAdminDecision ==
    \A k \in Checks :
        decisions[k] # "none" => (decisions[k] = "admin" <=> OnAllowList(authEmail))

\* All three have decided that an address is an admin's although none of
\* the lists has it in this spelling
C21_Witness ==
    /\ authEmail = "Admin@PremiumAccessZone.com"
    /\ \A k \in Checks : decisions[k] = "admin"

----------------------------------------------------------------------------
(* Properties of update-points *)

\* The step serves an update-points request that handleUpdatePoints answers
UpdatePointsStep ==
    /\ ServedStep
    /\ req'.endpoint = "admin-users"
    /\ resp'.handler = "handleUpdatePoints"

\* The profile of a user after an adjustment by n points
Adjusted(profile, n) ==
    [points |-> Max0(profile.points + n),
     total_earned |-> IF n > 0 THEN profile.total_earned + n
                      ELSE profile.total_earned]

\* C22: an update-points request that is answered with an error (400, 404 or
\* 500) has changed neither the user's points and total_earned nor the
\* transactions table; one that is answered with success has written the
\* profile update and exactly one transaction record.
C22_AllOrNothing ==
    [][UpdatePointsStep =>
          IF resp'.status = 200
          THEN /\ profiles'[body'.userId] =
                      Adjusted(profiles[body'.userId], body'.pointsToAdd.value)
               /\ Len(transactions') = Len(transactions) + 1
          ELSE /\ resp'.status \in {400, 404, 500}
               /\ profiles' = profiles
               /\ transactions' = transactions]_vars

\* The profile every request of the model starts from
InitialProfile == [points |-> 1, total_earned |-> 1]

\* Both workers have answered 200 to a request for the same user
BothSucceeded ==
    /\ \A w \in Workers : workers[w].pc = "answered" /\ workers[w].status = 200
    /\ workers["w1"].b.userId = workers["w2"].b.userId

Amount(w) == workers[w].b.pointsToAdd.value

\* C23: two update-points requests for the same user that overlap in time
\* both take effect: once both have succeeded the profile is what the two
\* requests leave when they run one after the other, in one order or the
\* other; without a deduction below zero that is the initial balance plus
\* both amounts, with every positive amount in total_earned.
C23_BothTakeEffect ==
    BothSucceeded =>
        /\ profiles[workers["w1"].b.userId] \in
               {Adjusted(Adjusted(InitialProfile, Amount("w1")), Amount("w2")),
                Adjusted(Adjusted(InitialProfile, Amount("w2")), Amount("w1"))}
        /\ (Amount("w1") >= 0 /\ Amount("w2") >= 0) =>
               profiles[workers["w1"].b.userId] =
                   [points |-> InitialProfile.points + Amount("w1") + Amount("w2"),
                    total_earned |-> InitialProfile.total_earned + Amount("w1")
                                         + Amount("w2")]

\* The signed amount of a transaction record: +points for 'earn', -points
\* for 'redeem'
Signed(record) ==
    IF record.type = "earn" THEN record.points ELSE -record.points

\* The signed sum of the admin adjustments recorded for a user
RECURSIVE SignedSum(_, _)
SignedSum(txs, userId) ==
    IF txs = <<>> THEN 0
    ELSE (IF Head(txs).user_id = userId /\ Head(txs).task_type = "admin_adjustment"
          THEN Signed(Head(txs)) ELSE 0)
         + SignedSum(Tail(txs), userId)

\* C24: for every successful update-points call the change of the user's
\* points equals the signed amount of the transaction record it inserts, so
\* the balance always equals the initial balance plus the signed sum of the
\* recorded admin adjustments.
C24_BalanceFollowsRecords ==
    /\ [][(UpdatePointsStep /\ resp'.status = 200) =>
              profiles'[body'.userId].points - profiles[body'.userId].points
                  = Signed(transactions'[Len(transactions')])]_vars
    /\ [](\A u \in UserIds :
              profiles[u].points = InitialProfile.points + SignedSum(transactions, u))

\* C25: after any sequence of update-points requests, with positive, zero
\* or negative amounts, the points of every profile are >= 0.
C25_PointsNotNegative == \A u \in DOMAIN profiles : profiles[u].points >= 0

\* A successful request has deducted more points than the user had
C25_Witness ==
    /\ resp.handler = "handleUpdatePoints" /\ resp.status = 200
    /\ body.pointsToAdd.value = -2
    /\ profiles[body.userId].points = 0
    /\ served = 2

----------------------------------------------------------------------------
(* Properties of the redemption rows *)

\* C26: in every state reachable through admin redemption updates, a
\* redemption request has a non-null activation_code or expires_at only if
\* its status is completed.
C26_CodeOnlyWhenCompleted ==
    \A r \in DOMAIN redemption_requests :
        (redemption_requests[r].activation_code # Null
         \/ redemption_requests[r].expires_at # NoTime)
        => redemption_requests[r].status = "completed"

----------------------------------------------------------------------------
(* Properties of refreshData *)

\* The initial fetches and the fetches of refreshData have all completed
\* successfully
Refreshed ==
    \A c \in Callers : pcReferrals[c] = "done" /\ pcEarnings[c] = "done"

\* stats after one successful run of fetchReferrals and fetchEarnings
StatsOfOneRun ==
    EarningStats(ReferralStats(InitialStats, store_referrals), store_earnings)

\* C27: refreshData is idempotent on the referral statistics: while the
\* stored referrals and earnings do not change, running refreshData after
\* the initial fetches leaves every field of stats, totalEarnings included,
\* at the value it had after the initial fetches.
C27_RefreshIdempotent == Refreshed => stats = StatsOfOneRun

----------------------------------------------------------------------------
(* Properties of processingId *)

\* The toggle and delete calls whose request is in flight
InFlight ==
    {i \in 1..Len(ops) : ops[i].op \in {"toggle", "delete"} /\ ops[i].pc = "fetch"}

\* C28: while a toggle or delete request for a subscription item is in
\* flight, processingId equals that item's id, so the item's toggle and
\* delete buttons stay disabled, also when the admin starts an action on
\* another item before the first request finishes.
C28_ProcessingIdHeld == \A i \in InFlight : processingId = ops[i].id

====
